---- MODULE Spec2Model ----
(***************************************************************************)
(* Verification model of the farewell front end's client-side core:        *)
(*   - the RelayerSDKLoader (fhevm/internal/RelayerSDKLoader.ts),          *)
(*   - the AES-GCM pack/unpack helpers (lib/aes.ts),                       *)
(*   - the 128-bit hex codec (lib/bit128.ts) and the share XOR of the page.*)
(*                                                                         *)
(* Text is modelled as a sequence of one-character strings, bytes as       *)
(* integers 0..255 and a BigInt as its canonical sequence of hex digits    *)
(* (most significant first, no leading zero, <<>> for 0), so that 128-bit  *)
(* values are exact.                                                       *)
(***************************************************************************)
EXTENDS Integers, Sequences, FiniteSets, TLC

VARIABLES
    \* ---- page / loader state -------------------------------------------
    hasWindow,          \* typeof window !== "undefined"
    pathname,           \* window.location.pathname of the page
    relayerSDK,         \* the value of window.relayerSDK (kind "absent": no such property)
    scripts,            \* <script> elements of the document, in insertion order
    calls,              \* log of the loader calls made so far and how each settled
    wasmPatchApplied,   \* RelayerSDKLoader._wasmPatchApplied, per loader object
    fetchWraps,         \* number of wrappers installed around window.fetch
    instWraps,          \* number of wrappers around WebAssembly.instantiateStreaming
    \* ---- cipher state ---------------------------------------------------
    phase,              \* position of the encrypt / recover / decrypt scenario
    key,                \* raw bytes of the CryptoKey used by encrypt
    plain,              \* the plaintext string (UTF-16 code units) given to encrypt
    packed,             \* the packed text handed to decrypt
    sealed,             \* what the platform cipher has produced: [key, iv, aad, ct, pt]
    console,            \* everything written with console.log / console.error
    shares,             \* [s, sPrime, sk]: the two share texts and the recombined key bytes
    result,             \* outcome of the last decrypt
    subtleDecryptCalls, \* number of calls of crypto.subtle.decrypt
    \* ---- share fields of the page --------------------------------------
    sHex,               \* useState sHex
    sPrimeHex,          \* useState sPrimeHex
    xorOut,             \* the last value computed for xorHex
    \* ---- single calls of the key and hex conversions ---------------------
    codec,              \* the last conversion call: its input and what it returned
    \* ---- traffic through window.fetch / WebAssembly.instantiateStreaming -
    net                 \* the last call: what reached the original primitives

loaderVars == <<hasWindow, pathname, relayerSDK, scripts, calls, wasmPatchApplied,
                fetchWraps, instWraps>>
cipherVars == <<phase, key, plain, packed, sealed, console, shares, result,
                subtleDecryptCalls>>
shareVars  == <<sHex, sPrimeHex, xorOut>>
vars == <<loaderVars, cipherVars, shareVars, codec, net>>

(***************************************************************************)
(* Text helpers (JavaScript String methods).                               *)
(***************************************************************************)
\* s.startsWith(p)
StartsWith(s, p) == Len(s) >= Len(p) /\ SubSeq(s, 1, Len(p)) = p

\* s.slice(n)
Slice(s, n) == SubSeq(s, n + 1, Len(s))

\* s.slice(0, n)
Take(s, n) == SubSeq(s, 1, IF n < Len(s) THEN n ELSE Len(s))

S0x == <<"0", "x">>
SFarewell == <<"/", "f", "a", "r", "e", "w", "e", "l", "l">>
SSdkPath == <<"/", "r", "e", "l", "a", "y", "e", "r", "-", "s", "d", "k",
              "/", "r", "e", "l", "a", "y", "e", "r", "-", "s", "d", "k", "-", "j", "s",
              ".", "u", "m", "d", ".", "c", "j", "s">>

(***************************************************************************)
(* Bounds of the loader model.                                             *)
(***************************************************************************)
MaxCalls == 4       \* loader calls (load / isLoaded) made in one page session
NumLoaders == 2     \* RelayerSDKLoader objects constructed in the page

Loaders == 1..NumLoaders

(***************************************************************************)
(* JavaScript values, as far as the structural validation looks at them.   *)
(* A member is a type tag; "missing" means the object has no such property.*)
(***************************************************************************)
TypeOf(v) ==
    CASE v = "undefined" -> "undefined"
      [] v = "null"      -> "object"
      [] v = "object"    -> "object"
      [] v = "function"  -> "function"
      [] v = "string"    -> "string"
      [] v = "number"    -> "number"
      [] v = "true"      -> "boolean"
      [] v = "false"     -> "boolean"
      [] OTHER           -> "undefined"

SdkValue(kind, initSDK, createInstance, sepoliaConfig, initialized) ==
    [kind |-> kind, initSDK |-> initSDK, createInstance |-> createInstance,
     SepoliaConfig |-> sepoliaConfig, initialized |-> initialized]

\* window has no relayerSDK property
AbsentSdk == SdkValue("absent", "missing", "missing", "missing", "missing")

\* what running the SDK script may leave in window.relayerSDK
ScriptResults ==
    { SdkValue("object", "function", "function", "object", "missing"),
      SdkValue("object", "function", "function", "object", "false"),
      SdkValue("object", "function", "function", "object", "string"),
      SdkValue("object", "missing", "function", "object", "missing"),
      SdkValue("object", "function", "function", "null", "missing"),
      SdkValue("null", "missing", "missing", "missing", "missing"),
      AbsentSdk }

\* objHasProperty(obj, propertyName, propertyType); value is obj[propertyName]
ObjHasProperty(obj, value, propertyType) ==
    /\ obj.kind = "object"
    /\ value # "missing"
    /\ value # "null" /\ value # "undefined"
    /\ TypeOf(value) = propertyType

\* isFhevmRelayerSDKType(o) that does not look at __initialized__
IsFhevmRelayerSDKTypeNoFlagCheck(o) ==
    /\ TypeOf(o.kind) = "object" /\ o.kind # "null"
    /\ ObjHasProperty(o, o.initSDK, "function")
    /\ ObjHasProperty(o, o.createInstance, "function")
    /\ ObjHasProperty(o, o.SepoliaConfig, "object")

\* isFhevmRelayerSDKType(o)
IsFhevmRelayerSDKType(o) ==
    /\ TypeOf(o.kind) # "undefined"
    /\ o.kind # "null"
    /\ TypeOf(o.kind) = "object"
    /\ ObjHasProperty(o, o.initSDK, "function")
    /\ ObjHasProperty(o, o.createInstance, "function")
    /\ ObjHasProperty(o, o.SepoliaConfig, "object")
    /\ (o.initialized # "missing" => o.initialized \in {"true", "false"})

\* "relayerSDK" in window
InWindow(w) == w.kind # "absent"

\* isFhevmWindowType(window) for a window whose relayerSDK is w
IsFhevmWindowType(w) == InWindow(w) /\ IsFhevmRelayerSDKType(w)

(***************************************************************************)
(* constants.ts                                                            *)
(***************************************************************************)
\* getBasePath() in the browser
GetBasePath(path) == IF StartsWith(path, SFarewell) THEN SFarewell ELSE <<>>

\* getSDKCDNUrl()
GetSDKCDNUrl(path) == GetBasePath(path) \o SSdkPath

(***************************************************************************)
(* RelayerSDKLoader                                                        *)
(***************************************************************************)
ErrNotBrowser == "RelayerSDKLoader: can only be used in the browser."
ErrUnableToLoad == "RelayerSDKLoader: Unable to load FHEVM Relayer SDK"
ErrNoValidSdk == "RelayerSDKLoader: window object does not contain a valid relayerSDK object."
ErrInvalidAfterLoad == "RelayerSDKLoader: Relayer SDK script has been successfully loaded from ${sdkUrl}, however, the window.relayerSDK object is invalid."
ErrScriptLoadFailed == "RelayerSDKLoader: Failed to load Relayer SDK from ${sdkUrl}"

\* a promise: pending, or settled once and for all
PendingPromise == [outcome |-> "pending", err |-> "", url |-> <<>>]
PromiseResolve(p) == IF p.outcome = "pending" THEN [p EXCEPT !.outcome = "resolved"] ELSE p
PromiseReject(p, e, u) ==
    IF p.outcome = "pending" THEN [outcome |-> "rejected", err |-> e, url |-> u] ELSE p

\* a querySelector that finds nothing
QuerySelectorScriptNull(doc, sdkUrl) == 0

\* document.querySelector(`script[src="${sdkUrl}"]`): index of the first match, 0 for null
QuerySelectorScript(doc, sdkUrl) ==
    IF \E i \in 1..Len(doc) : doc[i].src = sdkUrl
    THEN CHOOSE i \in 1..Len(doc) :
             doc[i].src = sdkUrl /\ \A j \in 1..(i - 1) : doc[j].src # sdkUrl
    ELSE 0

\* LoadFastPath with the validity test the wrong way round
LoadFastPathInverted(w) ==
    IF InWindow(w)
    THEN IF IsFhevmRelayerSDKType(w) THEN "throw" ELSE "resolve"
    ELSE "continue"

\* load(), the test of the global handle before any promise is made:
\* "throw", "resolve" (Promise.resolve()) or "continue"
LoadFastPath(w) ==
    IF InWindow(w)
    THEN IF ~IsFhevmRelayerSDKType(w) THEN "throw" ELSE "resolve"
    ELSE "continue"

\* load(), the promise executor's branch for an existing script element
ExistingScriptSettle(w) ==
    LET p1 == IF ~IsFhevmWindowType(w)
              THEN PromiseReject(PendingPromise, ErrNoValidSdk, <<>>)
              ELSE PendingPromise
    IN  PromiseResolve(p1)

\* OnloadSettle without the validation of the global handle
OnloadSettleUnchecked(p, w, sdkUrl) == PromiseResolve(p)

\* script.onload, applied to the promise p of the call that injected the script
OnloadSettle(p, w, sdkUrl) ==
    LET p1 == IF ~IsFhevmWindowType(w)
              THEN PromiseReject(p, ErrInvalidAfterLoad, sdkUrl)
              ELSE p
    IN  PromiseResolve(p1)

\* script.onerror that does not say which URL failed
OnerrorSettleNoUrl(p, sdkUrl) == PromiseReject(p, ErrScriptLoadFailed, <<>>)

\* script.onerror
OnerrorSettle(p, sdkUrl) == PromiseReject(p, ErrScriptLoadFailed, sdkUrl)

\* _patchWasmLoading() that installs the wrappers whatever the base path is
PatchWasmLoadingNoBaseCheck(l) ==
    IF wasmPatchApplied[l]
    THEN [applied |-> wasmPatchApplied, fetch |-> fetchWraps, inst |-> instWraps]
    ELSE [applied |-> [wasmPatchApplied EXCEPT ![l] = TRUE],
          fetch |-> fetchWraps + 1, inst |-> instWraps + 1]

\* _patchWasmLoading() of loader l: the new flag and wrapper counts
PatchWasmLoading(l) ==
    IF wasmPatchApplied[l]
    THEN [applied |-> wasmPatchApplied, fetch |-> fetchWraps, inst |-> instWraps]
    ELSE IF GetBasePath(pathname) = <<>>
         THEN [applied |-> [wasmPatchApplied EXCEPT ![l] = TRUE],
               fetch |-> fetchWraps, inst |-> instWraps]
         ELSE [applied |-> [wasmPatchApplied EXCEPT ![l] = TRUE],
               fetch |-> fetchWraps + 1, inst |-> instWraps + 1]

\* ---- bookkeeping of the call log (what a caller observes) --------------
\* the loader state machine's state, read off the page
LoaderState ==
    IF IsFhevmWindowType(relayerSDK) THEN "Ready"
    ELSE IF \E i \in 1..Len(scripts) : scripts[i].state = "pending" THEN "Loading"
    ELSE IF Len(scripts) > 0 \/ InWindow(relayerSDK) THEN "Failed"
    ELSE "NotLoaded"

\* the call whose script is in flight, 0 if none
InFlightOwner ==
    IF \E i \in 1..Len(scripts) : scripts[i].state = "pending"
    THEN scripts[CHOOSE i \in 1..Len(scripts) : scripts[i].state = "pending"].owner
    ELSE 0

\* the load() calls that have resolved, and those whose script attempt has failed
ResolvedLoads ==
    {i \in 1..Len(calls) : calls[i].op = "load" /\ calls[i].outcome = "resolved"}
FailedAttempts ==
    {i \in 1..Len(calls) : calls[i].op = "load" /\ calls[i].branch = "inject"
                            /\ calls[i].outcome = "rejected"}

\* one entry of the call log; at, joined, resolvedAtIssue and failedAtIssue
\* describe the page at the moment of the call
CallRecord(op, l, branch, p) ==
    [op |-> op, loader |-> l, branch |-> branch,
     outcome |-> p.outcome, err |-> p.err, url |-> p.url,
     at |-> LoaderState, joined |-> InFlightOwner,
     resolvedAtIssue |-> ResolvedLoads, failedAtIssue |-> FailedAttempts]

\* isLoaded()
IsLoaded(l) ==
    /\ Len(calls) < MaxCalls
    /\ calls' = Append(calls,
          IF ~hasWindow
          THEN CallRecord("isLoaded", l, "noWindow",
                          [outcome |-> "thrown", err |-> ErrNotBrowser, url |-> <<>>])
          ELSE CallRecord("isLoaded", l, "window",
                          [outcome |-> IF IsFhevmWindowType(relayerSDK) THEN "true" ELSE "false",
                           err |-> "", url |-> <<>>]))
    /\ UNCHANGED <<hasWindow, pathname, relayerSDK, scripts, wasmPatchApplied,
                   fetchWraps, instWraps, cipherVars, shareVars, codec, net>>

\* load() that patches the WASM loading before it looks for window
LoadPatchesFirst(l) ==
    /\ Len(calls) < MaxCalls
    /\ IF ~hasWindow
       THEN /\ calls' = Append(calls, CallRecord("load", l, "noWindow",
                           PromiseReject(PendingPromise, ErrNotBrowser, <<>>)))
            /\ wasmPatchApplied' = PatchWasmLoading(l).applied
            /\ fetchWraps' = PatchWasmLoading(l).fetch
            /\ instWraps' = PatchWasmLoading(l).inst
            /\ scripts' = scripts
       ELSE LET patch == PatchWasmLoading(l)
                fast == LoadFastPath(relayerSDK)
                sdkUrl == GetSDKCDNUrl(pathname)
                existingScript == QuerySelectorScript(scripts, sdkUrl)
            IN  /\ wasmPatchApplied' = patch.applied
                /\ fetchWraps' = patch.fetch
                /\ instWraps' = patch.inst
                /\ IF fast = "throw"
                   THEN /\ calls' = Append(calls, CallRecord("load", l, "global",
                               [outcome |-> "thrown", err |-> ErrUnableToLoad, url |-> <<>>]))
                        /\ scripts' = scripts
                   ELSE IF fast = "resolve"
                   THEN /\ calls' = Append(calls, CallRecord("load", l, "global",
                               PromiseResolve(PendingPromise)))
                        /\ scripts' = scripts
                   ELSE IF existingScript # 0
                   THEN /\ calls' = Append(calls, CallRecord("load", l, "existing",
                               ExistingScriptSettle(relayerSDK)))
                        /\ scripts' = scripts
                   ELSE /\ calls' = Append(calls, CallRecord("load", l, "inject",
                               PendingPromise))
                        /\ scripts' = Append(scripts,
                               [src |-> sdkUrl, state |-> "pending",
                                owner |-> Len(calls) + 1])
    /\ UNCHANGED <<hasWindow, pathname, relayerSDK, cipherVars, shareVars, codec, net>>

\* load()
Load(l) ==
    /\ Len(calls) < MaxCalls
    /\ IF ~hasWindow
       THEN /\ calls' = Append(calls, CallRecord("load", l, "noWindow",
                           PromiseReject(PendingPromise, ErrNotBrowser, <<>>)))
            /\ UNCHANGED <<scripts, wasmPatchApplied, fetchWraps, instWraps>>
       ELSE LET patch == PatchWasmLoading(l)
                fast == LoadFastPath(relayerSDK)
                sdkUrl == GetSDKCDNUrl(pathname)
                existingScript == QuerySelectorScript(scripts, sdkUrl)
            IN  /\ wasmPatchApplied' = patch.applied
                /\ fetchWraps' = patch.fetch
                /\ instWraps' = patch.inst
                /\ IF fast = "throw"
                   THEN /\ calls' = Append(calls, CallRecord("load", l, "global",
                               [outcome |-> "thrown", err |-> ErrUnableToLoad, url |-> <<>>]))
                        /\ scripts' = scripts
                   ELSE IF fast = "resolve"
                   THEN /\ calls' = Append(calls, CallRecord("load", l, "global",
                               PromiseResolve(PendingPromise)))
                        /\ scripts' = scripts
                   ELSE IF existingScript # 0
                   THEN /\ calls' = Append(calls, CallRecord("load", l, "existing",
                               ExistingScriptSettle(relayerSDK)))
                        /\ scripts' = scripts
                   ELSE /\ calls' = Append(calls, CallRecord("load", l, "inject",
                               PendingPromise))
                        /\ scripts' = Append(scripts,
                               [src |-> sdkUrl, state |-> "pending",
                                owner |-> Len(calls) + 1])
    /\ UNCHANGED <<hasWindow, pathname, relayerSDK, cipherVars, shareVars, codec, net>>

SettleCall(c, p) == [c EXCEPT !.outcome = p.outcome, !.err = p.err, !.url = p.url]
PromiseOf(c) == [outcome |-> c.outcome, err |-> c.err, url |-> c.url]

\* the browser has fetched and run script i, which left c in window.relayerSDK
\* (AbsentSdk: it defined no global), and fires its load event
ScriptOnload(i, c) ==
    /\ scripts[i].state = "pending"
    /\ LET w == IF InWindow(c) THEN c ELSE relayerSDK
           o == scripts[i].owner
       IN  /\ relayerSDK' = w
           /\ calls' = [calls EXCEPT ![o] =
                          SettleCall(@, OnloadSettle(PromiseOf(@), w, scripts[i].src))]
    /\ scripts' = [scripts EXCEPT ![i].state = "loaded"]
    /\ UNCHANGED <<hasWindow, pathname, wasmPatchApplied, fetchWraps, instWraps,
                   cipherVars, shareVars, codec, net>>

\* the browser could not fetch script i and fires its error event
ScriptOnerror(i) ==
    /\ scripts[i].state = "pending"
    /\ calls' = [calls EXCEPT ![scripts[i].owner] =
                    SettleCall(@, OnerrorSettle(PromiseOf(@), scripts[i].src))]
    /\ scripts' = [scripts EXCEPT ![i].state = "errored"]
    /\ UNCHANGED <<hasWindow, pathname, relayerSDK, wasmPatchApplied, fetchWraps, instWraps,
                   cipherVars, shareVars, codec, net>>

SRoot == <<"/">>
SFarewellPage == SFarewell \o <<"/">>



(***************************************************************************)
(* Characters and BigInt arithmetic.                                       *)
(***************************************************************************)
HexChars == <<"0", "1", "2", "3", "4", "5", "6", "7", "8", "9",
              "a", "b", "c", "d", "e", "f">>

LowerHexSet == {"0", "1", "2", "3", "4", "5", "6", "7", "8", "9",
                "a", "b", "c", "d", "e", "f"}
UpperHexSet == {"A", "B", "C", "D", "E", "F"}

IsHexChar(c) == c \in LowerHexSet                          \* [0-9a-f]
IsHexCharAnyCase(c) == c \in LowerHexSet \/ c \in UpperHexSet

\* one character of String.prototype.toLowerCase
ToLowerChar(c) ==
    CASE c = "A" -> "a" [] c = "B" -> "b" [] c = "C" -> "c" [] c = "D" -> "d"
      [] c = "E" -> "e" [] c = "F" -> "f" [] c = "X" -> "x" [] c = "G" -> "g"
      [] OTHER -> c

ToLowerCase(s) == [i \in 1..Len(s) |-> ToLowerChar(s[i])]

HexValOf == [c \in LowerHexSet |-> (CHOOSE i \in 1..16 : HexChars[i] = c) - 1]

\* value of a hex digit, either case
HexVal(c) == HexValOf[ToLowerChar(c)]

IsSpace(c) == c = " "

\* String.prototype.trim
Trim(s) ==
    LET keep == {i \in 1..Len(s) : ~IsSpace(s[i])}
    IN  IF keep = {} THEN <<>>
        ELSE SubSeq(s, CHOOSE i \in keep : \A j \in keep : i <= j,
                       CHOOSE i \in keep : \A j \in keep : i >= j)

\* a BigInt >= 0 is its hex digits, most significant first, without leading zeros
Canon(d) ==
    LET nz == {i \in 1..Len(d) : d[i] # 0}
    IN  IF nz = {} THEN <<>>
        ELSE SubSeq(d, CHOOSE i \in nz : \A j \in nz : i <= j, Len(d))

\* BigInt("0x" + s) for a text s of hex digits
BigIntOfHex(s) == Canon([i \in 1..Len(s) |-> HexVal(s[i])])

\* v.toString(16)
BigToString16(v) == IF v = <<>> THEN <<"0">> ELSE [i \in 1..Len(v) |-> HexChars[v[i] + 1]]

\* bitwise exclusive or of two hex digits
XorDigit(a, b) ==
    ((a + b) % 2) + 2 * (((a \div 2) + (b \div 2)) % 2)
    + 4 * (((a \div 4) + (b \div 4)) % 2) + 8 * (((a \div 8) + (b \div 8)) % 2)

PadTo(v, n) == IF Len(v) >= n THEN v ELSE [i \in 1..(n - Len(v)) |-> 0] \o v

\* a ^ b
BigXor(a, b) ==
    LET n == IF Len(a) > Len(b) THEN Len(a) ELSE Len(b)
        pa == PadTo(a, n)
        pb == PadTo(b, n)
    IN  Canon([i \in 1..n |-> XorDigit(pa[i], pb[i])])

(***************************************************************************)
(* lib/bit128.ts                                                           *)
(***************************************************************************)
HexDigits128 == 32      \* hex digits of the mask 0xffffffffffffffffffffffffffffffff

\* v & mask
Mask128(v) == IF Len(v) > HexDigits128
              THEN Canon(SubSeq(v, Len(v) - HexDigits128 + 1, Len(v)))
              ELSE v

ErrInvalidHex == "Invalid hex"
ErrTooManyDigits == "Too many hex digits for 128-bit"

Returned(v) == [ok |-> TRUE, val |-> v, err |-> ""]
Thrown(e) == [ok |-> FALSE, val |-> <<>>, err |-> e]

\* Hex16ToBigint without trim()
Hex16ToBigintNoTrim(hex) ==
    LET h == ToLowerCase(hex)
        s == IF StartsWith(h, S0x) THEN Slice(h, 2) ELSE h
    IN  IF Len(s) = 0 THEN Returned(<<>>)
        ELSE IF ~(\A i \in 1..Len(s) : IsHexChar(s[i])) THEN Thrown(ErrInvalidHex)
        ELSE IF Len(s) > 32 THEN Thrown(ErrTooManyDigits)
        ELSE Returned(Mask128(BigIntOfHex(s)))

\* Hex16ToBigint without the early return for the empty digit string
Hex16ToBigintNoEmpty(hex) ==
    LET h == ToLowerCase(Trim(hex))
        s == IF StartsWith(h, S0x) THEN Slice(h, 2) ELSE h
    IN  IF Len(s) = 0 \/ ~(\A i \in 1..Len(s) : IsHexChar(s[i])) THEN Thrown(ErrInvalidHex)
        ELSE IF Len(s) > 32 THEN Thrown(ErrTooManyDigits)
        ELSE Returned(Mask128(BigIntOfHex(s)))

\* hex16ToBigint(hex)
Hex16ToBigint(hex) ==
    LET h == ToLowerCase(Trim(hex))
        s == IF StartsWith(h, S0x) THEN Slice(h, 2) ELSE h
    IN  IF Len(s) = 0 THEN Returned(<<>>)
        ELSE IF ~(\A i \in 1..Len(s) : IsHexChar(s[i])) THEN Thrown(ErrInvalidHex)
        ELSE IF Len(s) > 32 THEN Thrown(ErrTooManyDigits)
        ELSE Returned(Mask128(BigIntOfHex(s)))

\* BigintToHex16 without the padding
BigintToHex16NoPad(v) == S0x \o BigToString16(Mask128(v))

\* bigintToHex16(v)
BigintToHex16(v) ==
    LET x == Mask128(v)
        s == BigToString16(x)
        padded == IF Len(s) < 32 THEN [i \in 1..(32 - Len(s)) |-> "0"] \o s ELSE s
    IN  S0x \o padded

(***************************************************************************)
(* app/page.tsx: the share fields                                          *)
(***************************************************************************)
\* xorHex (useMemo over sHex, sPrimeHex)
XorHex(s, sPrime) ==
    LET a == Hex16ToBigint(sPrime)
        b == Hex16ToBigint(s)
    IN  IF a.ok /\ b.ok THEN BigintToHex16(BigXor(a.val, b.val)) ELSE S0x

(***************************************************************************)
(* lib/aes.ts: bytes, hex and BigInt conversions                           *)
(***************************************************************************)
\* ByteToHex2 without padStart
ByteToHex2NoPad(x) ==
    IF x < 16 THEN <<HexChars[x + 1]>> ELSE <<HexChars[(x \div 16) + 1], HexChars[(x % 16) + 1]>>

\* x.toString(16).padStart(2, "0") for a byte x
ByteToHex2(x) == <<HexChars[(x \div 16) + 1], HexChars[(x % 16) + 1]>>

RECURSIVE HexOfBytes(_)
HexOfBytes(b) == IF b = <<>> THEN <<>> ELSE ByteToHex2(Head(b)) \o HexOfBytes(Tail(b))

\* bytesToHex(b)
BytesToHex(b) == S0x \o HexOfBytes(b)

\* bufToHex(buf)
BufToHex(b) == HexOfBytes(b)

\* concat(a, b)
Concat(a, b) == a \o b

\* strip0x(hex)
Strip0x(hex) == IF StartsWith(hex, S0x) THEN Slice(hex, 2) ELSE hex

\* parseInt(two characters, 16), stored into a Uint8Array element (NaN is stored as 0)
ParseInt16Byte(c1, c2) ==
    IF c1 = "0" /\ c2 \in {"x", "X"} THEN 0              \* prefix 0x, no digits: NaN
    ELSE IF ~IsHexCharAnyCase(c1) THEN 0                   \* NaN
    ELSE IF ~IsHexCharAnyCase(c2) THEN HexVal(c1)          \* parsing stops at c2
    ELSE 16 * HexVal(c1) + HexVal(c2)

ErrOddLength == "hex string has odd length"

\* hexToBytes(hex)
HexToBytes(hex) ==
    LET clean == Strip0x(hex)
    IN  IF Len(clean) % 2 # 0 THEN Thrown(ErrOddLength)
        ELSE Returned([i \in 1..(Len(clean) \div 2) |->
                          ParseInt16Byte(clean[2 * i - 1], clean[2 * i])])

\* (v << 8) | b for a byte b
BigShl8Or(v, b) == Canon(v \o <<b \div 16, b % 16>>)

\* Number(v & 0xff)
BigLowByte(v) == LET p == PadTo(v, 2) IN 16 * p[Len(p) - 1] + p[Len(p)]

\* BigShr8 shifting by four bits only
BigShr4(v) == IF Len(v) <= 1 THEN <<>> ELSE SubSeq(v, 1, Len(v) - 1)

\* v >> 8
BigShr8(v) == IF Len(v) <= 2 THEN <<>> ELSE SubSeq(v, 1, Len(v) - 2)

RECURSIVE Key16Fold(_, _)
Key16Fold(k, v) == IF k = <<>> THEN v ELSE Key16Fold(Tail(k), BigShl8Or(v, Head(k)))

\* key16ToBigint(k)
Key16ToBigint(k) == Key16Fold(k, <<>>)

KeyBytes == 16      \* new Uint8Array(16)

RECURSIVE Key16Fill(_, _, _)
Key16Fill(out, i, v) ==
    IF i < 0 THEN out
    ELSE Key16Fill([out EXCEPT ![i + 1] = BigLowByte(v)], i - 1, BigShr8(v))

\* bigintToKey16(v)
BigintToKey16(v) == Key16Fill([i \in 1..KeyBytes |-> 0], 15, v)

(***************************************************************************)
(* Platform text codecs (Encoding Standard), as used by lib/aes.ts.        *)
(* A string is its sequence of UTF-16 code units.                          *)
(***************************************************************************)
IsHighSurrogate(u) == u >= 55296 /\ u <= 56319       \* D800..DBFF
IsLowSurrogate(u) == u >= 56320 /\ u <= 57343        \* DC00..DFFF
ReplacementChar == 65533                             \* U+FFFD
ByteOrderMark == 65279                               \* U+FEFF

\* UTF-8 bytes of one scalar value
Utf8OfScalar(c) ==
    IF c < 128 THEN <<c>>
    ELSE IF c < 2048 THEN <<192 + (c \div 64), 128 + (c % 64)>>
    ELSE IF c < 65536 THEN <<224 + (c \div 4096), 128 + ((c \div 64) % 64), 128 + (c % 64)>>
    ELSE <<240 + (c \div 262144), 128 + ((c \div 4096) % 64),
           128 + ((c \div 64) % 64), 128 + (c % 64)>>

\* new TextEncoder().encode(s): surrogate pairs combine, a lone surrogate becomes U+FFFD
RECURSIVE TextEncode(_)
TextEncode(s) ==
    IF s = <<>> THEN <<>>
    ELSE LET u == Head(s) IN
         IF IsHighSurrogate(u) /\ Len(s) >= 2 /\ IsLowSurrogate(s[2])
         THEN Utf8OfScalar(65536 + (u - 55296) * 1024 + (s[2] - 56320))
                  \o TextEncode(Tail(Tail(s)))
         ELSE IF IsHighSurrogate(u) \/ IsLowSurrogate(u)
         THEN Utf8OfScalar(ReplacementChar) \o TextEncode(Tail(s))
         ELSE Utf8OfScalar(u) \o TextEncode(Tail(s))

IsCont(b, i) == i <= Len(b) /\ b[i] >= 128 /\ b[i] < 192

\* UTF-16 code units of one scalar value
Utf16OfScalar(c) ==
    IF c < 65536 THEN <<c>>
    ELSE <<55296 + ((c - 65536) \div 1024), 56320 + ((c - 65536) % 1024)>>

\* UTF-8 decoding with replacement, from byte i on
RECURSIVE Utf8Decode(_, _)
Utf8Decode(b, i) ==
    IF i > Len(b) THEN <<>>
    ELSE IF b[i] < 128 THEN <<b[i]>> \o Utf8Decode(b, i + 1)
    ELSE IF b[i] >= 194 /\ b[i] < 224 /\ IsCont(b, i + 1)
    THEN <<(b[i] - 192) * 64 + (b[i + 1] - 128)>> \o Utf8Decode(b, i + 2)
    ELSE IF b[i] >= 224 /\ b[i] < 240 /\ IsCont(b, i + 1) /\ IsCont(b, i + 2)
            /\ (b[i] - 224) * 4096 + (b[i + 1] - 128) * 64 >= 2048
            /\ ~IsHighSurrogate((b[i] - 224) * 4096 + (b[i + 1] - 128) * 64)
            /\ ~IsLowSurrogate((b[i] - 224) * 4096 + (b[i + 1] - 128) * 64)
    THEN <<(b[i] - 224) * 4096 + (b[i + 1] - 128) * 64 + (b[i + 2] - 128)>>
             \o Utf8Decode(b, i + 3)
    ELSE IF b[i] >= 240 /\ b[i] < 245 /\ IsCont(b, i + 1) /\ IsCont(b, i + 2)
            /\ IsCont(b, i + 3)
            /\ (b[i] - 240) * 262144 + (b[i + 1] - 128) * 4096 >= 65536
            /\ (b[i] - 240) * 262144 + (b[i + 1] - 128) * 4096 < 1114112
    THEN Utf16OfScalar((b[i] - 240) * 262144 + (b[i + 1] - 128) * 4096
                           + (b[i + 2] - 128) * 64 + (b[i + 3] - 128))
             \o Utf8Decode(b, i + 4)
    ELSE <<ReplacementChar>> \o Utf8Decode(b, i + 1)

\* new TextDecoder().decode(bytes): utf-8, fatal false, ignoreBOM false,
\* so a byte order mark at the start is not part of the output
TextDecode(b) ==
    LET s == Utf8Decode(b, 1)
    IN  IF s # <<>> /\ Head(s) = ByteOrderMark THEN Tail(s) ELSE s

(***************************************************************************)
(* Platform cipher (crypto.subtle), as an ideal authenticated cipher:      *)
(* decrypt succeeds exactly on what encrypt produced, under the same key,  *)
(* IV and additional data.                                                 *)
(***************************************************************************)
TagLengthBits == 128    \* tagLengthBits: number = 128

\* the bytes crypto.subtle.encrypt returns: ciphertext, then the 16-byte tag
SubtleEncrypt(k, iv, pt) ==
    [i \in 1..Len(pt) |-> (pt[i] + k[((i - 1) % 16) + 1] + iv[((i - 1) % 12) + 1]) % 256]
    \o [j \in 1..(TagLengthBits \div 8) |-> (k[j] + iv[((j - 1) % 12) + 1] + Len(pt) + j) % 256]

\* crypto.subtle.decrypt: the plaintext, or a rejection (a DOMException called pname)
SubtleDecrypt(store, k, iv, aad, data, pname) ==
    IF \E r \in store : r.key = k /\ r.iv = iv /\ r.aad = aad /\ r.ct = data
    THEN [ok |-> TRUE,
          val |-> (CHOOSE r \in store :
                      r.key = k /\ r.iv = iv /\ r.aad = aad /\ r.ct = data).pt,
          name |-> "", message |-> ""]
    ELSE [ok |-> FALSE, val |-> <<>>, name |-> pname, message |-> ""]

\* the names under which a platform reports a failed decrypt; "" is an exception
\* that carries no name (the e?.name test of the catch block)
PlatformErrorNames == {"OperationError", ""}

\* a CryptoKey made by importKey("raw", ..., true, ["encrypt", "decrypt"])
CryptoKeyOf(raw) == [raw |-> raw, extractable |-> TRUE]

\* crypto.subtle.exportKey("raw", key)
SubtleExportKey(k) ==
    IF k.extractable THEN [ok |-> TRUE, val |-> k.raw, name |-> "", message |-> ""]
    ELSE [ok |-> FALSE, val |-> <<>>, name |-> "InvalidAccessError", message |-> ""]

(***************************************************************************)
(* lib/aes.ts: encrypt and decrypt                                         *)
(***************************************************************************)
LogEntry(level, label, text) == [level |-> level, label |-> label, text |-> text]

\* printKeyHex(key): what it writes, or the exception of exportKey
PrintKeyHex(k) ==
    LET raw == SubtleExportKey(k)
    IN  IF raw.ok
        THEN [ok |-> TRUE, name |-> "", message |-> "",
              log |-> <<LogEntry("log", "Key (hex):", BufToHex(raw.val))>>]
        ELSE [ok |-> FALSE, name |-> raw.name, message |-> raw.message, log |-> <<>>]

ErrCipherTooShort == "cipher too short (missing IV or tag)"
ErrDecryptFailedNamed == "AES-GCM decrypt failed: ${e.name} (likely key/IV/tag/AAD mismatch)"
ErrDecryptFailed == "AES-GCM decrypt failed (likely key/IV/tag/AAD mismatch)"

\* the catch block of decryptUtf8AesGcmPacked: the Error thrown to the caller for
\* a caught exception with this name
DecryptCatch(name) ==
    IF name # "" THEN [msg |-> ErrDecryptFailedNamed, name |-> name]
    ELSE [msg |-> ErrDecryptFailed, name |-> ""]

\* the try block of decryptUtf8AesGcmPacked: the value returned, or the exception
\* raised inside it; called says whether crypto.subtle.decrypt was reached
DecryptTry(store, text, k, aad, pname) ==
    LET printed == PrintKeyHex(k)
        data == HexToBytes(text)
        logs == <<LogEntry("log", "AES-GCM decrypt:", text)>> \o printed.log
    IN  IF ~printed.ok
        THEN [ok |-> FALSE, val |-> <<>>, name |-> printed.name, message |-> "",
              called |-> FALSE, log |-> logs]
        ELSE IF ~data.ok
        THEN [ok |-> FALSE, val |-> <<>>, name |-> "Error", message |-> data.err,
              called |-> FALSE, log |-> logs]
        ELSE IF Len(data.val) < 12 + (TagLengthBits \div 8)
        THEN [ok |-> FALSE, val |-> <<>>, name |-> "Error", message |-> ErrCipherTooShort,
              called |-> FALSE, log |-> logs]
        ELSE LET iv == SubSeq(data.val, 1, 12)
                 ctAndTag == SubSeq(data.val, 13, Len(data.val))
                 pt == SubtleDecrypt(store, k.raw, iv, aad, ctAndTag, pname)
             IN  IF pt.ok
                 THEN [ok |-> TRUE, val |-> TextDecode(pt.val), name |-> "", message |-> "",
                       called |-> TRUE, log |-> logs]
                 ELSE [ok |-> FALSE, val |-> <<>>, name |-> pt.name, message |-> pt.message,
                       called |-> TRUE, log |-> logs]

\* DecryptUtf8AesGcmPacked without the try / catch: the exception reaches the caller
DecryptUtf8AesGcmPackedNoCatch(store, text, k, aad, pname) ==
    LET t == DecryptTry(store, text, k, aad, pname)
    IN  [ok |-> t.ok, text |-> t.val, err |-> [msg |-> t.message, name |-> t.name],
         called |-> t.called, log |-> t.log]

\* decryptUtf8AesGcmPacked(packed, key, aad): what the caller gets
DecryptUtf8AesGcmPacked(store, text, k, aad, pname) ==
    LET t == DecryptTry(store, text, k, aad, pname)
    IN  IF t.ok
        THEN [ok |-> TRUE, text |-> t.val, err |-> [msg |-> "", name |-> ""],
              called |-> t.called, log |-> t.log]
        ELSE [ok |-> FALSE, text |-> <<>>, err |-> DecryptCatch(t.name),
              called |-> t.called,
              log |-> t.log \o <<LogEntry("error", "[AES-GCM decrypt] failed:",
                                          <<t.name, t.message>>)>>]

\* encryptUtf8AesGcmPacked(s, key) with the IV that getRandomValues drew
EncryptUtf8AesGcmPacked(s, k, iv) ==
    LET printed == PrintKeyHex(k)
        pt == TextEncode(s)
        ct == SubtleEncrypt(k.raw, iv, pt)
    IN  [ok |-> printed.ok, text |-> BytesToHex(Concat(iv, ct)),
         seal |-> [key |-> k.raw, iv |-> iv, aad |-> <<>>, ct |-> ct, pt |-> pt],
         log |-> printed.log]

(***************************************************************************)
(* Inputs of the cipher scenario.                                          *)
(***************************************************************************)
MaxPlainLen == 2    \* code units in a plaintext

\* h, e with acute accent, the byte order mark, a high and a low surrogate
PlainUnits == {104, 233, 65279, 55357, 56832}

RECURSIVE SeqsUpTo(_, _)
SeqsUpTo(S, n) ==
    IF n = 0 THEN {<<>>}
    ELSE LET shorter == SeqsUpTo(S, n - 1)
         IN  shorter \cup {Append(q, x) : q \in shorter, x \in S}

Plaintexts == SeqsUpTo(PlainUnits, MaxPlainLen)

SampleKeys == { [i \in 1..16 |-> i - 1],
                [i \in 1..16 |-> (200 + 37 * i) % 256] }

SampleIvs == { [i \in 1..12 |-> i], [i \in 1..12 |-> 255 - i] }

\* off-chain shares as randomHex16 writes them
SamplePrimes == { S0x \o [i \in 1..32 |-> "0"],
                  S0x \o [i \in 1..32 |-> HexChars[((5 * i) % 16) + 1]],
                  S0x \o [i \in 1..32 |-> "f"] }

\* additional data given to decrypt: none (undefined), or these bytes
SampleAads == { <<>>, <<1>> }

OtherKey(raw) == CHOOSE k \in SampleKeys : k # raw

(***************************************************************************)
(* The scenario: encrypt, store, possibly damage, split and recombine the  *)
(* key, decrypt.                                                           *)
(***************************************************************************)
NoResult == [done |-> FALSE, ok |-> FALSE, text |-> <<>>,
             err |-> [msg |-> "", name |-> ""], called |-> FALSE,
             which |-> "", aad |-> <<>>, pname |-> ""]

\* encryptUtf8AesGcmPacked(plain, key)
Encrypt(iv) ==
    /\ phase = "start"
    /\ LET e == EncryptUtf8AesGcmPacked(plain, key, iv)
       IN  /\ packed' = [text |-> e.text, damage |-> "none"]
           /\ sealed' = sealed \cup {e.seal}
           /\ console' = console \o e.log
    /\ phase' = "encrypted"
    /\ UNCHANGED <<key, plain, shares, result, subtleDecryptCalls, loaderVars, shareVars, codec, net>>

\* the hex digit at position pos of the text with its lowest bit flipped
FlipBit(text, pos) == [text EXCEPT ![pos] = HexChars[XorDigit(HexVal(@), 1) + 1]]

DamageKinds == {"flipIv", "flipCt", "flipTag", "cut0", "cut12", "cut27"}

Damaged(text, kind) ==
    CASE kind = "flipIv"  -> FlipBit(text, 4)                 \* in byte 1 of the IV
      [] kind = "flipCt"  -> FlipBit(text, 2 + 2 * 12 + 2)     \* in the byte after the IV
      [] kind = "flipTag" -> FlipBit(text, Len(text))          \* in the last byte
      [] kind = "cut0"    -> Take(text, 2)
      [] kind = "cut12"   -> Take(text, 2 + 2 * 12)
      [] kind = "cut27"   -> Take(text, 2 + 2 * 27)

\* the stored payload is altered before it is decrypted
Damage(kind) ==
    /\ phase = "encrypted"
    /\ packed' = [text |-> Damaged(packed.text, kind), damage |-> kind]
    /\ phase' = "damaged"
    /\ UNCHANGED <<key, plain, sealed, console, shares, result, subtleDecryptCalls, loaderVars, shareVars, codec, net>>

\* the on-chain share of the key: s = k XOR s'
SplitKey ==
    /\ phase = "encrypted"
    /\ shares' = [shares EXCEPT !.s =
                    BigintToHex16(BigXor(Key16ToBigint(key.raw),
                                         Hex16ToBigint(shares.sPrime).val))]
    /\ phase' = "split"
    /\ UNCHANGED <<key, plain, packed, sealed, console, result, subtleDecryptCalls, loaderVars, shareVars, codec, net>>

\* key recovery: sk = s XOR s', as raw key bytes
RecoverKey ==
    /\ phase = "split"
    /\ shares' = [shares EXCEPT !.sk =
                    BigintToKey16(Hex16ToBigint(XorHex(shares.s, shares.sPrime)).val)]
    /\ phase' = "recovered"
    /\ UNCHANGED <<key, plain, packed, sealed, console, result, subtleDecryptCalls, loaderVars, shareVars, codec, net>>

\* decryptUtf8AesGcmPacked(packed, k, aad) under the key named by which
Decrypt(which, aad, pname) ==
    /\ \/ phase = "encrypted" /\ which \in {"same", "other"}
       \/ phase = "damaged" /\ which = "same" /\ aad = <<>>
       \/ phase = "recovered" /\ which = "recombined" /\ aad = <<>>
    /\ LET k == CASE which = "same" -> key
                  [] which = "other" -> CryptoKeyOf(OtherKey(key.raw))
                  [] which = "recombined" -> CryptoKeyOf(shares.sk)
           d == DecryptUtf8AesGcmPacked(sealed, packed.text, k, aad, pname)
       IN  /\ result' = [done |-> TRUE, ok |-> d.ok, text |-> d.text, err |-> d.err,
                         called |-> d.called, which |-> which, aad |-> aad,
                         pname |-> pname]
           /\ console' = console \o d.log
           /\ subtleDecryptCalls' = subtleDecryptCalls + (IF d.called THEN 1 ELSE 0)
    /\ phase' = "done"
    /\ UNCHANGED <<key, plain, packed, sealed, shares, loaderVars, shareVars, codec, net>>



(***************************************************************************)
(* The share XOR of the page, applied to sample texts.                     *)
(***************************************************************************)
ShareTexts ==
    { <<>>, S0x, <<"0", "x", "0">>, <<"0", "X", "0", "0">>, <<" ", "0", "x", " ">>,
      S0x \o [i \in 1..32 |-> "0"],
      <<"0", "x", "a", "b", "c">>, <<"0", "x", "A", "B", "C">>, <<"f", "f">>,
      S0x \o [i \in 1..32 |-> HexChars[((7 * i) % 16) + 1]],
      S0x \o [i \in 1..32 |-> "f"],
      <<"0", "x", "g", "1">>,
      S0x \o [i \in 1..33 |-> "1"] }

NoXor == [done |-> FALSE, val |-> <<>>]

\* the page renders xorHex for the current share fields
ComputeXor ==
    /\ ~xorOut.done
    /\ xorOut' = [done |-> TRUE, val |-> XorHex(sHex, sPrimeHex)]
    /\ UNCHANGED <<sHex, sPrimeHex, loaderVars, cipherVars, codec, net>>



(***************************************************************************)
(* lib/aes.ts: key import and export. The file is present in three         *)
(* revisions; each revision's aesImportRaw16 is modelled.                  *)
(***************************************************************************)
\* crypto.subtle.importKey("raw", keyData, {name: "AES-GCM"}, extractable, usages):
\* an AES key of 128, 192 or 256 bits, or a DataError
SubtleImportKey(raw, extractable) ==
    IF Len(raw) * 8 \in {128, 192, 256}
    THEN [ok |-> TRUE, key |-> [CryptoKeyOf(raw) EXCEPT !.extractable = extractable],
          name |-> ""]
    ELSE [ok |-> FALSE, key |-> CryptoKeyOf(<<>>), name |-> "DataError"]

ErrKeyMust16 == "Key must be 16 bytes"
ErrAesKeyMust16 == "AES-128 key must be 16 bytes, got ${byteLength}"
ErrExportedNot16 == "Exported key not 16 bytes"

\* what an import returns: the key, or the error thrown; platform counts the calls
\* of crypto.subtle.importKey
ImportOutcome(sub, calls_) ==
    [ok |-> sub.ok, key |-> sub.key, err |-> sub.name, got |-> 0, platform |-> calls_]
ImportThrown(e, n) ==
    [ok |-> FALSE, key |-> CryptoKeyOf(<<>>), err |-> e, got |-> n, platform |-> 0]

\* aesImportRaw16(raw), first revision: raw.length !== 16
AesImportRaw16First(raw) ==
    IF Len(raw) # 16 THEN ImportThrown(ErrKeyMust16, 0)
    ELSE ImportOutcome(SubtleImportKey(raw, TRUE), 1)

\* AesImportRaw16 without the test of the length
AesImportRaw16NoLengthCheck(raw) == ImportOutcome(SubtleImportKey(raw, TRUE), 1)

\* aesImportRaw16(raw), current revision of lib/aes.ts: view.byteLength !== 16
AesImportRaw16(raw) ==
    IF Len(raw) # 16 THEN ImportThrown(ErrAesKeyMust16, Len(raw))
    ELSE ImportOutcome(SubtleImportKey(raw, TRUE), 1)

\* aesImportRaw16(raw), the revision that copies raw into a fresh ArrayBuffer(16)
\* and imports it with extractable false
AesImportRaw16Copy(raw) ==
    IF Len(raw) # 16 THEN ImportThrown(ErrAesKeyMust16, Len(raw))
    ELSE ImportOutcome(SubtleImportKey([i \in 1..16 |-> raw[i]], FALSE), 1)

Revisions == {"first", "current", "copy"}

AesImportRaw16Of(rev, raw) ==
    CASE rev = "first"   -> AesImportRaw16First(raw)
      [] rev = "current" -> AesImportRaw16(raw)
      [] rev = "copy"    -> AesImportRaw16Copy(raw)

\* aesExportRaw16(key)
AesExportRaw16(k) ==
    LET raw == SubtleExportKey(k)
    IN  IF ~raw.ok THEN [ok |-> FALSE, val |-> <<>>, err |-> raw.name]
        ELSE IF Len(raw.val) # 16 THEN [ok |-> FALSE, val |-> <<>>, err |-> ErrExportedNot16]
        ELSE [ok |-> TRUE, val |-> raw.val, err |-> ""]

(***************************************************************************)
(* BigInt values with a sign, for bigintToHex16 of any integer.            *)
(***************************************************************************)
\* an integer: sign and magnitude (canonical hex digits)
SignedBig(neg, mag) == [neg |-> neg /\ mag # <<>>, mag |-> mag]

\* d + 1 for a digit sequence d
RECURSIVE BigInc(_)
BigInc(d) ==
    IF d = <<>> THEN <<1>>
    ELSE IF d[Len(d)] < 15 THEN [d EXCEPT ![Len(d)] = @ + 1]
    ELSE Append(BigInc(SubSeq(d, 1, Len(d) - 1)), 0)

\* BigAndMask128 taking the magnitude for the value
BigAndMask128OfMagnitude(x) == Mask128(x.mag)

\* x & mask for the 128-bit mask: BigInt & works on the two's complement of a
\* negative operand
BigAndMask128(x) ==
    IF ~x.neg THEN Mask128(x.mag)
    ELSE LET r == PadTo(Mask128(x.mag), HexDigits128)
         IN  Mask128(Canon(BigInc([i \in 1..HexDigits128 |-> 15 - r[i]])))

\* bigintToHex16(v) for an integer v of either sign
BigintToHex16Signed(x) == BigintToHex16(BigAndMask128(x))

(***************************************************************************)
(* Single calls of the conversions, on sample inputs.                      *)
(***************************************************************************)
NoCodec == [op |-> "none", rev |-> "", bytes |-> <<>>, num |-> SignedBig(FALSE, <<>>),
            text |-> <<>>, ok |-> FALSE, err |-> "", got |-> 0, platform |-> 0,
            ok2 |-> FALSE, err2 |-> "", outBytes |-> <<>>, outNum |-> <<>>,
            outText |-> <<>>]

ByteLine(a, b, n) == [i \in 1..n |-> (a + b * i) % 256]

\* 16-byte keys: zeros, 0xff, leading zero bytes, mixed
SampleKeys16 ==
    {ByteLine(a, b, 16) : a \in {0, 255, 7}, b \in {0, 1, 37}}
    \cup {[i \in 1..16 |-> IF i < 4 THEN 0 ELSE 16 * i],
          [i \in 1..16 |-> IF i = 16 THEN 1 ELSE 0]}

\* byte arrays that are not 16 bytes long
SampleNonKeys ==
    {ByteLine(3, 5, n) : n \in {0, 1, 15, 17, 24, 32}}

\* the key is imported and, when that succeeded, exported again
ImportExport(rev, raw) ==
    /\ codec.op = "none"
    /\ LET imp == AesImportRaw16Of(rev, raw)
           exp == AesExportRaw16(imp.key)
       IN  codec' = [NoCodec EXCEPT !.op = "importExport", !.rev = rev, !.bytes = raw,
                        !.ok = imp.ok, !.err = imp.err, !.got = imp.got,
                        !.platform = imp.platform,
                        !.ok2 = imp.ok /\ exp.ok,
                        !.err2 = IF imp.ok THEN exp.err ELSE "",
                        !.outBytes = IF imp.ok THEN exp.val ELSE <<>>]
    /\ UNCHANGED <<loaderVars, cipherVars, shareVars, net>>

\* bigintToKey16(key16ToBigint(k))
KeyRoundTrip(k) ==
    /\ codec.op = "none"
    /\ codec' = [NoCodec EXCEPT !.op = "keyRoundTrip", !.bytes = k, !.ok = TRUE,
                    !.outNum = Key16ToBigint(k),
                    !.outBytes = BigintToKey16(Key16ToBigint(k))]
    /\ UNCHANGED <<loaderVars, cipherVars, shareVars, net>>

\* magnitudes: small values, values of exactly 128 bits, values beyond 128 bits
SampleMagnitudes ==
    {<<>>, <<1>>, <<15>>, <<1, 0>>, <<10, 11, 12>>, <<15, 15>>,
     [i \in 1..31 |-> 15], [i \in 1..32 |-> 15], [i \in 1..32 |-> (3 * i) % 16],
     [i \in 1..32 |-> IF i = 1 THEN 8 ELSE 0],
     <<1>> \o [i \in 1..32 |-> 0], <<1>> \o [i \in 1..31 |-> 0] \o <<5>>,
     <<7>> \o [i \in 1..32 |-> 15], <<2, 9>> \o [i \in 1..32 |-> (5 * i) % 16],
     [i \in 1..40 |-> (i % 15) + 1]}

SampleIntegers == {SignedBig(neg, m) : neg \in BOOLEAN, m \in SampleMagnitudes}

\* hex16ToBigint(bigintToHex16(x))
HexRoundTrip(x) ==
    /\ codec.op = "none"
    /\ LET h == BigintToHex16Signed(x)
           v == Hex16ToBigint(h)
       IN  codec' = [NoCodec EXCEPT !.op = "hexRoundTrip", !.num = x, !.outText = h,
                        !.ok = v.ok, !.err = v.err, !.outNum = v.val]
    /\ UNCHANGED <<loaderVars, cipherVars, shareVars, net>>

\* texts given to hex16ToBigint
SampleHexTexts ==
    ShareTexts
    \cup {<<" ", "f", "f">>, <<"f", "f", " ">>, <<" ">>, <<"1", " ", "2">>,
          <<"0", "x", " ", "1">>, <<"0", "X">>, <<"F", "F">>, <<"x", "1">>,
          <<"0", "x", "0", "x", "1">>, <<"-", "1">>, <<"1", "2", "z">>,
          [i \in 1..32 |-> "F"], [i \in 1..33 |-> "0"], [i \in 1..32 |-> "0"],
          [i \in 1..33 |-> "g"], S0x \o [i \in 1..32 |-> "A"],
          <<" ">> \o S0x \o [i \in 1..32 |-> "9"] \o <<" ">>,
          S0x \o [i \in 1..31 |-> "1"], S0x \o [i \in 1..40 |-> "f"],
          S0x \o [i \in 1..32 |-> "f"] \o <<" ", "1">>}

\* hex16ToBigint(text)
ParseHex(text) ==
    /\ codec.op = "none"
    /\ LET v == Hex16ToBigint(text)
       IN  codec' = [NoCodec EXCEPT !.op = "parseHex", !.text = text,
                        !.ok = v.ok, !.err = v.err, !.outNum = v.val]
    /\ UNCHANGED <<loaderVars, cipherVars, shareVars, net>>

(***************************************************************************)
(* RelayerSDKLoader._patchWasmLoading: the two wrappers.                   *)
(* A URL is text; new URL(url, base) is modelled for https URLs, absolute  *)
(* paths and relative paths without dot segments or escapes.               *)
(***************************************************************************)
\* s.includes(sub)
Includes(s, sub) ==
    \E i \in 1..(Len(s) - Len(sub) + 1) : SubSeq(s, i, i + Len(sub) - 1) = sub

\* s.endsWith(sub)
EndsWith(s, sub) ==
    Len(s) >= Len(sub) /\ SubSeq(s, Len(s) - Len(sub) + 1, Len(s)) = sub

\* s.indexOf(c) + 1 for a character c: 0 when c is not in s
IndexOfChar(s, c) ==
    IF \E i \in 1..Len(s) : s[i] = c
    THEN CHOOSE i \in 1..Len(s) : s[i] = c /\ \A j \in 1..(i - 1) : s[j] # c
    ELSE 0

\* s.replace(sub, rep) for a string sub: the first occurrence only
ReplaceFirst(s, sub, rep) ==
    IF Includes(s, sub)
    THEN LET i == CHOOSE k \in 1..(Len(s) - Len(sub) + 1) :
                      /\ SubSeq(s, k, k + Len(sub) - 1) = sub
                      /\ \A j \in 1..(k - 1) : SubSeq(s, j, j + Len(sub) - 1) # sub
         IN  SubSeq(s, 1, i - 1) \o rep \o SubSeq(s, i + Len(sub), Len(s))
    ELSE s

SDotWasm == <<".", "w", "a", "s", "m">>
SHttps == <<"h", "t", "t", "p", "s", ":", "/", "/">>
SOrigin == <<"h", "t", "t", "p", "s", ":", "/", "/", "a", ".", "i", "o">>             \* window.location.origin
SOtherOrigin == <<"h", "t", "t", "p", "s", ":", "/", "/", "c", ".", "i", "o">>

\* the parts of rest = path ? search # hash
SplitPath(org, rest) ==
    LET h == IndexOfChar(rest, "#")
        beforeHash == IF h = 0 THEN rest ELSE SubSeq(rest, 1, h - 1)
        q == IndexOfChar(beforeHash, "?")
        path == IF q = 0 THEN beforeHash ELSE SubSeq(beforeHash, 1, q - 1)
    IN  [origin |-> org,
         pathname |-> IF path = <<>> THEN <<"/">> ELSE path,
         search |-> IF q = 0 \/ q = Len(beforeHash) THEN <<>>
                    ELSE SubSeq(beforeHash, q, Len(beforeHash)),
         hash |-> IF h = 0 \/ h = Len(rest) THEN <<>> ELSE SubSeq(rest, h, Len(rest))]

\* new URL(url, base) where base is an origin
NewURL(url, base) ==
    IF StartsWith(url, SHttps)
    THEN LET after == Slice(url, Len(SHttps))
             cut == {i \in 1..Len(after) : after[i] \in {"/", "?", "#"}}
             e == IF cut = {} THEN Len(after) + 1
                  ELSE CHOOSE i \in cut : \A j \in cut : i <= j
         IN  SplitPath(SHttps \o SubSeq(after, 1, e - 1), SubSeq(after, e, Len(after)))
    ELSE IF StartsWith(url, <<"/">>) THEN SplitPath(base, url)
    ELSE SplitPath(base, <<"/">> \o url)

\* what is given to fetch: a string, a URL object or a Request, with the options
\* a Request carries
FetchInput(kind, url, opts) == [kind |-> kind, url |-> url, opts |-> opts]

\* the one element of a singleton set
The(S) == CHOOSE x \in S : TRUE

\* a fetch wrapper that rebuilds the URL from origin and path only
PatchedFetchDropsSearch(basePath, input, init) ==
    LET url == input.url
    IN  IF url # <<>> /\ (EndsWith(url, SDotWasm) \/ Includes(url, SDotWasm))
        THEN The({ IF StartsWith(urlObj.pathname, <<"/">>)
                      /\ ~StartsWith(urlObj.pathname, basePath)
                   THEN [input |-> FetchInput(input.kind,
                                              urlObj.origin \o basePath \o urlObj.pathname,
                                              input.opts),
                         init |-> init]
                   ELSE [input |-> input, init |-> init]
                   : urlObj \in {NewURL(url, SOrigin)} })
        ELSE [input |-> input, init |-> init]

\* the wrapper installed around window.fetch for base path basePath: the
\* arguments with which it calls the fetch it wraps
PatchedFetch(basePath, input, init) ==
    LET url == input.url
    IN  IF url # <<>> /\ (EndsWith(url, SDotWasm) \/ Includes(url, SDotWasm))
        THEN The({ IF StartsWith(urlObj.pathname, <<"/">>)
                      /\ ~StartsWith(urlObj.pathname, basePath)
                   THEN LET newPath == basePath \o urlObj.pathname
                            newUrl == urlObj.origin \o newPath \o urlObj.search
                                          \o urlObj.hash
                        IN  [input |-> FetchInput(input.kind, newUrl, input.opts),
                             init |-> init]
                   ELSE [input |-> input, init |-> init]
                   : urlObj \in {NewURL(url, SOrigin)} })
        ELSE [input |-> input, init |-> init]

\* window.fetch(input, init) under n wrappers: the call that reaches the
\* original fetch
RECURSIVE WindowFetch(_, _, _, _)
WindowFetch(n, basePath, input, init) ==
    IF n = 0 THEN [input |-> input, init |-> init]
    ELSE The({ WindowFetch(n - 1, basePath, inner.input, inner.init)
               : inner \in {PatchedFetch(basePath, input, init)} })

\* the directory of the document: the base of relative URLs
DocumentDir(path) ==
    LET sl == {i \in 1..Len(path) : path[i] = "/"}
    IN  SubSeq(path, 1, CHOOSE i \in sl : \A j \in sl : i >= j)

\* Response.url of what the original fetch returns: the request's absolute URL
ResponseUrl(url, docPath) ==
    IF StartsWith(url, SHttps) THEN url
    ELSE IF StartsWith(url, <<"/">>) THEN SOrigin \o url
    ELSE SOrigin \o DocumentDir(docPath) \o url

\* a Response: its url, and whether it is the one the caller passed in
ResponseOf(url, given) == [url |-> url, given |-> given]

\* the wrapper installed around WebAssembly.instantiateStreaming for base path
\* basePath: the response it hands to the primitive it wraps, and the calls of
\* window.fetch (under nFetch wrappers) it makes
PatchedInstantiate(basePath, response, nFetch, docPath) ==
    LET url == response.url
    IN  IF url # <<>> /\ (EndsWith(url, SDotWasm) \/ Includes(url, SDotWasm))
           /\ ~Includes(url, basePath)
        THEN The({ [response |-> ResponseOf(ResponseUrl(call.input.url, docPath), FALSE),
                    fetched |-> <<call>>]
                   : call \in { WindowFetch(nFetch, basePath,
                                            FetchInput("string", newUrl, "none"),
                                            "undefined")
                                : newUrl \in { basePath \o <<"/">>
                                               \o (IF StartsWith(stripped, <<"/">>)
                                                   THEN Slice(stripped, 1)
                                                   ELSE stripped)
                                               : stripped \in
                                                   {ReplaceFirst(url, SOrigin, <<>>)} } } })
        ELSE [response |-> response, fetched |-> <<>>]

\* WebAssembly.instantiateStreaming(source) under n wrappers: the response that
\* reaches the original primitive and the fetches made on the way
RECURSIVE WindowInstantiate(_, _, _, _, _)
WindowInstantiate(n, basePath, response, nFetch, docPath) ==
    IF n = 0 THEN [response |-> response, fetched |-> <<>>]
    ELSE The({ The({ [response |-> rest.response,
                      fetched |-> here.fetched \o rest.fetched]
                     : rest \in {WindowInstantiate(n - 1, basePath, here.response,
                                                   nFetch, docPath)} })
               : here \in {PatchedInstantiate(basePath, response, nFetch, docPath)} })

(***************************************************************************)
(* Traffic of the page through the two primitives, after some load() calls.*)
(***************************************************************************)
MaxPatchCalls == 2   \* load() calls made before the traffic is observed

SPageDeep == SFarewell \o <<"/", "m", "/">>

\* the parts a request is put together from
SamplePaths == { <<"/", "t", "f", "h", "e", "_", "b", "g", ".", "w", "a", "s", "m">>, <<"/", "a", "p", "p", ".", "j", "s">>, SFarewell \o <<"/", "t", "f", "h", "e", "_", "b", "g", ".", "w", "a", "s", "m">>, SFarewell \o <<"/", "a", "p", "p", ".", "j", "s">>, <<"/", "m", "/", "k", ".", "w", "a", "s", "m">>, <<"/", "a", "p", "i">> }
SampleRelativePaths == { <<"k", ".", "w", "a", "s", "m">>, <<"a", "p", "p", ".", "j", "s">> }
SampleQueries == { [search |-> <<>>, hash |-> <<>>],
                   [search |-> <<"?", "v", "=", "1">>, hash |-> <<"#", "s">>],
                   [search |-> <<"?", "f", "=", "k", ".", "w", "a", "s", "m">>, hash |-> <<>>] }

\* a request: the form it is written in, the parts of its URL, the options of a
\* Request object
Request(form, org, path, q, opts) ==
    [form |-> form, origin |-> org, path |-> path, search |-> q.search,
     hash |-> q.hash, opts |-> opts]

SampleRequests ==
    {Request("path", SOrigin, p, q, "none") : p \in SamplePaths, q \in SampleQueries}
    \cup {Request("relative", SOrigin, p, q, "none") :
              p \in SampleRelativePaths, q \in SampleQueries}
    \cup {Request("href", o, p, q, "none") :
              o \in {SOrigin, SOtherOrigin}, p \in SamplePaths, q \in SampleQueries}
    \cup {Request("URL", SOrigin, p, q, "none") : p \in SamplePaths, q \in SampleQueries}
    \cup {Request("Request", SOrigin, p, q, "post") :
              p \in SamplePaths, q \in SampleQueries}

\* the url a request is written with
UrlText(r) ==
    (IF r.form \in {"path", "relative"} THEN <<>> ELSE r.origin)
    \o r.path \o r.search \o r.hash

\* the argument of fetch for a request
InputOf(r) ==
    FetchInput(CASE r.form \in {"path", "relative", "href"} -> "string"
                 [] r.form = "URL" -> "URL"
                 [] r.form = "Request" -> "Request",
               UrlText(r), r.opts)

SampleInits == {"undefined", "init"}

NoRequest == Request("none", <<>>, <<>>, [search |-> <<>>, hash |-> <<>>], "none")

NoNet == [op |-> "none", req |-> NoRequest, init |-> "undefined", wraps |-> 0,
          source |-> ResponseOf(<<>>, TRUE), fetched |-> <<>>, instantiated |-> <<>>]

\* load() of loader l, before the traffic
PatchLoad(l) ==
    /\ Len(calls) < MaxPatchCalls
    /\ net.op = "none"
    /\ Load(l)

\* window.fetch(input, init) is called for request r
Fetch(r, init) ==
    /\ net.op = "none"
    /\ \E basePath \in {GetBasePath(pathname)}, input \in {InputOf(r)} :
           net' = [NoNet EXCEPT !.op = "fetch", !.req = r, !.init = init,
                      !.wraps = fetchWraps,
                      !.fetched = <<WindowFetch(fetchWraps, basePath, input, init)>>]
    /\ UNCHANGED <<loaderVars, cipherVars, shareVars, codec>>

\* responses given to instantiateStreaming: what fetch returned for a request
SampleResponses ==
    {ResponseOf(ResponseUrl(UrlText(r), SFarewell \o <<"/">>), TRUE) :
        r \in {x \in SampleRequests : x.form \in {"path", "href"} /\ x.search = <<>>}}
    \cup {ResponseOf(<<>>, TRUE)}

\* WebAssembly.instantiateStreaming(source) is called with a response (or a
\* promise of it)
InstantiateStreaming(source) ==
    /\ net.op = "none"
    /\ \E basePath \in {GetBasePath(pathname)} :
         \E w \in {WindowInstantiate(instWraps, basePath, source, fetchWraps, pathname)} :
           net' = [NoNet EXCEPT !.op = "instantiate", !.source = source,
                      !.wraps = instWraps,
                      !.fetched = w.fetched, !.instantiated = <<w.response>>]
    /\ UNCHANGED <<loaderVars, cipherVars, shareVars, codec>>

(***************************************************************************)
(* Specifications. Each runs one part; the others stay as constructed.     *)
(***************************************************************************)
InitLoader ==
    /\ hasWindow \in BOOLEAN
    /\ pathname \in {SRoot, SFarewellPage}
    /\ relayerSDK = AbsentSdk
    /\ scripts = <<>>
    /\ calls = <<>>
    /\ wasmPatchApplied = [l \in Loaders |-> FALSE]
    /\ fetchWraps = 0
    /\ instWraps = 0
    \* the cipher and the share fields are not used
    /\ phase = "idle"
    /\ key = CryptoKeyOf([i \in 1..16 |-> 0])
    /\ plain = <<>>
    /\ packed = [text |-> <<>>, damage |-> "none"]
    /\ sealed = {}
    /\ console = <<>>
    /\ shares = [s |-> <<>>, sPrime |-> <<>>, sk |-> <<>>]
    /\ result = NoResult
    /\ subtleDecryptCalls = 0
    /\ sHex = S0x
    /\ sPrimeHex = S0x
    /\ xorOut = NoXor
    /\ codec = NoCodec
    /\ net = NoNet

NextLoader ==
    \/ \E l \in Loaders : Load(l)
    \/ \E l \in Loaders : IsLoaded(l)
    \/ \E i \in 1..Len(scripts), c \in ScriptResults : ScriptOnload(i, c)
    \/ \E i \in 1..Len(scripts) : ScriptOnerror(i)

InitCipher ==
    /\ phase = "start"
    /\ key \in {CryptoKeyOf(raw) : raw \in SampleKeys}
    /\ plain \in Plaintexts
    /\ packed = [text |-> <<>>, damage |-> "none"]
    /\ sealed = {}
    /\ console = <<>>
    /\ shares \in {[s |-> <<>>, sPrime |-> p, sk |-> <<>>] : p \in SamplePrimes}
    /\ result = NoResult
    /\ subtleDecryptCalls = 0
    \* the loader and the share fields are not used
    /\ hasWindow = TRUE
    /\ pathname = SRoot
    /\ relayerSDK = AbsentSdk
    /\ scripts = <<>>
    /\ calls = <<>>
    /\ wasmPatchApplied = [l \in Loaders |-> FALSE]
    /\ fetchWraps = 0
    /\ instWraps = 0
    /\ sHex = S0x
    /\ sPrimeHex = S0x
    /\ xorOut = NoXor
    /\ codec = NoCodec
    /\ net = NoNet

NextCipher ==
    \/ \E iv \in SampleIvs : Encrypt(iv)
    \/ \E kind \in DamageKinds : Damage(kind)
    \/ SplitKey
    \/ RecoverKey
    \/ \E which \in {"same", "other", "recombined"}, aad \in SampleAads,
          pname \in PlatformErrorNames : Decrypt(which, aad, pname)

InitXor ==
    /\ sHex \in ShareTexts
    /\ sPrimeHex \in ShareTexts
    /\ xorOut = NoXor
    \* the loader and the cipher are not used
    /\ hasWindow = TRUE
    /\ pathname = SRoot
    /\ relayerSDK = AbsentSdk
    /\ scripts = <<>>
    /\ calls = <<>>
    /\ wasmPatchApplied = [l \in Loaders |-> FALSE]
    /\ fetchWraps = 0
    /\ instWraps = 0
    /\ phase = "idle"
    /\ key = CryptoKeyOf([i \in 1..16 |-> 0])
    /\ plain = <<>>
    /\ packed = [text |-> <<>>, damage |-> "none"]
    /\ sealed = {}
    /\ console = <<>>
    /\ shares = [s |-> <<>>, sPrime |-> <<>>, sk |-> <<>>]
    /\ result = NoResult
    /\ subtleDecryptCalls = 0
    /\ codec = NoCodec
    /\ net = NoNet

NextXor == ComputeXor

InitCodec ==
    /\ codec = NoCodec
    \* the loader, the cipher and the share fields are not used
    /\ net = NoNet
    /\ hasWindow = TRUE
    /\ pathname = SRoot
    /\ relayerSDK = AbsentSdk
    /\ scripts = <<>>
    /\ calls = <<>>
    /\ wasmPatchApplied = [l \in Loaders |-> FALSE]
    /\ fetchWraps = 0
    /\ instWraps = 0
    /\ phase = "idle"
    /\ key = CryptoKeyOf([i \in 1..16 |-> 0])
    /\ plain = <<>>
    /\ packed = [text |-> <<>>, damage |-> "none"]
    /\ sealed = {}
    /\ console = <<>>
    /\ shares = [s |-> <<>>, sPrime |-> <<>>, sk |-> <<>>]
    /\ result = NoResult
    /\ subtleDecryptCalls = 0
    /\ sHex = S0x
    /\ sPrimeHex = S0x
    /\ xorOut = NoXor

NextCodec ==
    \/ \E rev \in Revisions, raw \in SampleKeys16 \cup SampleNonKeys : ImportExport(rev, raw)
    \/ \E k \in SampleKeys16 : KeyRoundTrip(k)
    \/ \E x \in SampleIntegers : HexRoundTrip(x)
    \/ \E text \in SampleHexTexts : ParseHex(text)

SpecLoader == InitLoader /\ [][NextLoader]_vars

SpecCodec == InitCodec /\ [][NextCodec]_vars

InitWasm ==
    /\ hasWindow = TRUE
    /\ pathname \in {SRoot, SFarewellPage, SPageDeep}
    /\ relayerSDK = AbsentSdk
    /\ scripts = <<>>
    /\ calls = <<>>
    /\ wasmPatchApplied = [l \in Loaders |-> FALSE]
    /\ fetchWraps = 0
    /\ instWraps = 0
    /\ net = NoNet
    \* the cipher, the conversions and the share fields are not used
    /\ codec = NoCodec
    /\ phase = "idle"
    /\ key = CryptoKeyOf([i \in 1..16 |-> 0])
    /\ plain = <<>>
    /\ packed = [text |-> <<>>, damage |-> "none"]
    /\ sealed = {}
    /\ console = <<>>
    /\ shares = [s |-> <<>>, sPrime |-> <<>>, sk |-> <<>>]
    /\ result = NoResult
    /\ subtleDecryptCalls = 0
    /\ sHex = S0x
    /\ sPrimeHex = S0x
    /\ xorOut = NoXor

NextWasm ==
    \/ \E l \in Loaders : PatchLoad(l)
    \/ \E r \in SampleRequests, init \in SampleInits : Fetch(r, init)
    \/ \E source \in SampleResponses : InstantiateStreaming(source)

SpecWasm == InitWasm /\ [][NextWasm]_vars

(***************************************************************************)
(* isLoaded() on pages whose window.relayerSDK is any candidate value.     *)
(***************************************************************************)
MaxChecks == 1      \* isLoaded() calls made on one page

\* what a page may hold in window.relayerSDK
CandidateKinds == {"absent", "undefined", "null", "object", "string", "function"}
CandidateMembers == {"missing", "undefined", "null", "function", "object"}
CandidateFlags == {"missing", "undefined", "null", "true", "false", "string"}
Candidates ==
    {SdkValue(k, a, b, c, f) : k \in CandidateKinds, a \in CandidateMembers,
                               b \in CandidateMembers, c \in CandidateMembers,
                               f \in CandidateFlags}

\* isLoaded() of loader l on such a page
CheckLoaded(l) ==
    /\ Len(calls) < MaxChecks
    /\ IsLoaded(l)

InitValidate ==
    /\ hasWindow \in BOOLEAN
    /\ pathname = SRoot
    /\ relayerSDK \in Candidates
    /\ scripts = <<>>
    /\ calls = <<>>
    /\ wasmPatchApplied = [l \in Loaders |-> FALSE]
    /\ fetchWraps = 0
    /\ instWraps = 0
    \* the cipher, the conversions, the traffic and the share fields are not used
    /\ net = NoNet
    /\ codec = NoCodec
    /\ phase = "idle"
    /\ key = CryptoKeyOf([i \in 1..16 |-> 0])
    /\ plain = <<>>
    /\ packed = [text |-> <<>>, damage |-> "none"]
    /\ sealed = {}
    /\ console = <<>>
    /\ shares = [s |-> <<>>, sPrime |-> <<>>, sk |-> <<>>]
    /\ result = NoResult
    /\ subtleDecryptCalls = 0
    /\ sHex = S0x
    /\ sPrimeHex = S0x
    /\ xorOut = NoXor

NextValidate == \E l \in Loaders : CheckLoaded(l)

SpecValidate == InitValidate /\ [][NextValidate]_vars

(***************************************************************************)
(* app/page.tsx: typing and pasting into the share fields.                 *)
(***************************************************************************)
\* v.replace(/[^0-9a-f]/g, "")
KeepHex(v) == SelectSeq(v, IsHexChar)

\* handleSChange(e): the value given to setSHex for e.target.value = text
HandleSChange(text) ==
    LET v0 == ToLowerCase(Trim(text))
        v1 == IF ~StartsWith(v0, S0x) THEN S0x \o v0 ELSE v0
        v2 == KeepHex(v1)
        v3 == IF Len(v2) > 64 THEN Take(v2, 64) ELSE v2
    IN  S0x \o v3

\* handleSPrimeChange(e): the value given to setSPrimeHex
HandleSPrimeChange(text) ==
    LET v0 == ToLowerCase(Trim(text))
        v1 == IF ~StartsWith(v0, S0x) THEN S0x \o v0 ELSE v0
        v2 == KeepHex(v1)
        v3 == IF Len(v2) > 64 THEN Take(v2, 64) ELSE v2
    IN  S0x \o v3

\* clampHex128Input(raw)
ClampHex128Input(raw) ==
    LET v0 == ToLowerCase(Trim(raw))
        v1 == IF StartsWith(v0, S0x) THEN Slice(v0, 2) ELSE v0
        v2 == KeepHex(v1)
        v3 == IF Len(v2) > 64 THEN Take(v2, 64) ELSE v2
    IN  S0x \o v3

\* maxLength of the two inputs: the longest text typing can leave in a field
MaxLength == 66

\* what is typed or pasted
ShareInputs ==
    SampleHexTexts \cup {[i \in 1..70 |-> "a"], S0x \o [i \in 1..70 |-> "B"]}

\* the user types text into the field of s (onChange)
TypeS(text) ==
    /\ codec.op = "none"
    /\ sHex' = HandleSChange(text)
    /\ codec' = [NoCodec EXCEPT !.op = "handleSChange", !.text = text]
    /\ UNCHANGED <<sPrimeHex, xorOut, loaderVars, cipherVars, net>>

\* the user types text into the field of s' (onChange)
TypeSPrime(text) ==
    /\ codec.op = "none"
    /\ sPrimeHex' = HandleSPrimeChange(text)
    /\ codec' = [NoCodec EXCEPT !.op = "handleSPrimeChange", !.text = text]
    /\ UNCHANGED <<sHex, xorOut, loaderVars, cipherVars, net>>

\* the user pastes text into the field of s (onPaste: handlePasteClamp)
PasteS(text) ==
    /\ codec.op = "none"
    /\ sHex' = ClampHex128Input(text)
    /\ codec' = [NoCodec EXCEPT !.op = "pasteS", !.text = text]
    /\ UNCHANGED <<sPrimeHex, xorOut, loaderVars, cipherVars, net>>

\* the user pastes text into the field of s' (onPaste: handlePasteClamp)
PasteSPrime(text) ==
    /\ codec.op = "none"
    /\ sPrimeHex' = ClampHex128Input(text)
    /\ codec' = [NoCodec EXCEPT !.op = "pasteSPrime", !.text = text]
    /\ UNCHANGED <<sHex, xorOut, loaderVars, cipherVars, net>>

InitShare ==
    /\ sHex = S0x
    /\ sPrimeHex = S0x
    /\ xorOut = NoXor
    /\ codec = NoCodec
    \* the loader, the traffic and the cipher are not used
    /\ net = NoNet
    /\ hasWindow = TRUE
    /\ pathname = SRoot
    /\ relayerSDK = AbsentSdk
    /\ scripts = <<>>
    /\ calls = <<>>
    /\ wasmPatchApplied = [l \in Loaders |-> FALSE]
    /\ fetchWraps = 0
    /\ instWraps = 0
    /\ phase = "idle"
    /\ key = CryptoKeyOf([i \in 1..16 |-> 0])
    /\ plain = <<>>
    /\ packed = [text |-> <<>>, damage |-> "none"]
    /\ sealed = {}
    /\ console = <<>>
    /\ shares = [s |-> <<>>, sPrime |-> <<>>, sk |-> <<>>]
    /\ result = NoResult
    /\ subtleDecryptCalls = 0

NextShare ==
    \/ \E text \in {t \in ShareInputs : Len(t) <= MaxLength} : TypeS(text)
    \/ \E text \in {t \in ShareInputs : Len(t) <= MaxLength} : TypeSPrime(text)
    \/ \E text \in ShareInputs : PasteS(text)
    \/ \E text \in ShareInputs : PasteSPrime(text)
    \/ ComputeXor

SpecShare == InitShare /\ [][NextShare]_vars

SpecCipher == InitCipher /\ [][NextCipher]_vars

SpecXor == InitXor /\ [][NextXor]_vars

(***************************************************************************)
(* Properties of the loader (SpecLoader).                                  *)
(***************************************************************************)
CallIds == 1..Len(calls)

InjectedScripts == {n \in 1..Len(scripts) : scripts[n].src = GetSDKCDNUrl(pathname)}

\* C1: a load() issued while an earlier load() is Loading injects no second script
\* tag and settles as that earlier load settles: resolved if it resolves, rejected
\* if it rejects.
C1_SecondLoadSharesOutcome ==
    \A j \in CallIds :
        (calls[j].op = "load" /\ calls[j].at = "Loading") =>
            /\ calls[j].branch # "inject"
            /\ calls[calls[j].joined].outcome = "resolved" => calls[j].outcome = "resolved"
            /\ calls[calls[j].joined].outcome = "rejected" => calls[j].outcome = "rejected"

\* C2: of two load() calls, the second issued after the first has resolved, both
\* resolve and the document holds exactly one SDK script tag, injected once.
C2_SequentialLoadsOneScript ==
    \A i, j \in CallIds :
        (calls[j].op = "load" /\ i \in calls[j].resolvedAtIssue) =>
            /\ calls[i].outcome = "resolved"
            /\ calls[j].outcome = "resolved"
            /\ Cardinality(InjectedScripts) = 1
            /\ Cardinality({n \in CallIds : calls[n].branch = "inject"}) = 1

C2_Witness ==
    \E i, j \in CallIds :
        /\ i < j
        /\ calls[i].op = "load" /\ calls[i].branch = "inject"
        /\ calls[j].op = "load" /\ i \in calls[j].resolvedAtIssue
        /\ calls[j].outcome = "resolved"

\* C3: a load() called after a load() has failed (script error, or script loaded
\* with an invalid SDK) starts a new attempt: it injects the script again.
C3_RetryReentersLoading ==
    \A j \in CallIds :
        (calls[j].op = "load" /\ calls[j].failedAtIssue # {}) =>
            calls[j].branch = "inject"

\* C4: once a load() has resolved the global handle stays valid, every later load()
\* resolves without injecting a script tag and every later isLoaded() returns true.
C4_ReadyIsTerminal ==
    /\ ResolvedLoads # {} => IsFhevmWindowType(relayerSDK)
    /\ \A j \in CallIds :
          calls[j].resolvedAtIssue # {} =>
              /\ calls[j].op = "load" =>
                    calls[j].outcome = "resolved" /\ calls[j].branch # "inject"
              /\ calls[j].op = "isLoaded" => calls[j].outcome = "true"

C4_Witness ==
    \E i, j \in CallIds :
        /\ calls[i].resolvedAtIssue # {} /\ calls[i].op = "load"
        /\ calls[i].outcome = "resolved"
        /\ calls[j].resolvedAtIssue # {} /\ calls[j].op = "isLoaded"
        /\ calls[j].outcome = "true"

(***************************************************************************)
(* Properties of the cipher (SpecCipher).                                  *)
(***************************************************************************)
\* C5: no call of encrypt or decrypt writes the raw key bytes to the console.
C5_KeyNeverLogged ==
    \A n \in 1..Len(console) :
        \A k \in SampleKeys : console[n].text # BufToHex(k)

\* the packed text decodes to fewer than 12 + 16 bytes
ShortPacked ==
    HexToBytes(packed.text).ok /\ Len(HexToBytes(packed.text).val) < 28

\* C6: decrypt of a packed value of fewer than 28 bytes fails with the error
\* "cipher too short", not with the error of a failed authentication, and does
\* not call crypto.subtle.decrypt.
C6_ShortInputIsCipherTooShort ==
    (result.done /\ ShortPacked) =>
        /\ ~result.ok
        /\ result.err.msg = ErrCipherTooShort
        /\ ~result.called /\ subtleDecryptCalls = 0

\* a decrypt of a well-sized packed value that must not authenticate: another key,
\* a flipped bit of the IV, the ciphertext or the tag, or additional data that
\* encrypt did not use
AuthFailureCase ==
    /\ result.done /\ ~ShortPacked
    /\ \/ result.which = "other"
       \/ packed.damage \in {"flipIv", "flipCt", "flipTag"}
       \/ result.aad # <<>>

\* C7 as stated: every such decrypt fails with one and the same error, whatever the
\* name of the platform's exception.
C7_OneErrorWhateverTheName ==
    AuthFailureCase =>
        /\ ~result.ok
        /\ \A n \in PlatformErrorNames : result.err = DecryptCatch(n)

\* C7 as amended: every such decrypt fails after the platform primitive rejected,
\* with an error that is fixed by the name of the platform's exception alone: the
\* message template "AES-GCM decrypt failed: <name> (...)" with that name, or the
\* template without a name when the exception has none.
C7_OneErrorPerPlatformName ==
    AuthFailureCase =>
        /\ ~result.ok
        /\ result.called
        /\ result.err = [msg |-> IF result.pname = "" THEN ErrDecryptFailed
                                  ELSE ErrDecryptFailedNamed,
                         name |-> result.pname]

C7_Witness ==
    /\ AuthFailureCase
    /\ packed.damage = "flipCt"
    /\ result.err.name = "OperationError"

\* a string without lone surrogates
IsWellFormed(s) ==
    \A i \in 1..Len(s) :
        /\ IsHighSurrogate(s[i]) => (i < Len(s) /\ IsLowSurrogate(s[i + 1]))
        /\ IsLowSurrogate(s[i]) => (i > 1 /\ IsHighSurrogate(s[i - 1]))

\* C8: decrypt of what encrypt returned for a (well-formed) plaintext, under the
\* same key, returns that plaintext.
C8_DecryptInvertsEncrypt ==
    (/\ result.done /\ result.which = "same" /\ packed.damage = "none"
     /\ result.aad = <<>> /\ IsWellFormed(plain)) =>
        result.ok /\ result.text = plain

\* the recombined key bytes are those of the key
KeyBytesRecovered == phase \in {"recovered", "done"} /\ shares.sk # <<>> => shares.sk = key.raw

\* C9: s XOR s' recombined through the hex and integer conversions gives the 16 raw
\* bytes of k, and the payload encrypted under k decrypts to the plaintext with it.
C9_KeyRecoveryExact ==
    /\ KeyBytesRecovered
    /\ (result.done /\ result.which = "recombined" /\ IsWellFormed(plain)) =>
           result.ok /\ result.text = plain

(***************************************************************************)
(* Properties of the share XOR (SpecXor).                                  *)
(***************************************************************************)
\* texts of the zero share: the empty string, the unset field, zeros
ZeroShareTexts == {<<>>, S0x, <<"0", "x", "0">>, S0x \o [i \in 1..32 |-> "0"]}

\* 0x and exactly 32 lowercase hex digits
IsHex128Text(x) ==
    /\ Len(x) = 34 /\ StartsWith(x, S0x)
    /\ \A i \in 3..34 : x[i] \in LowerHexSet

ZeroHex128 == S0x \o [i \in 1..32 |-> "0"]

\* what xorHex has to be when z is a zero share and other a share
DegenerateXorIs(other, out) ==
    /\ out # S0x
    /\ IsHex128Text(other) => out = other
    /\ other \in ZeroShareTexts => out = ZeroHex128
    /\ Hex16ToBigint(other).ok => Hex16ToBigint(out) = Hex16ToBigint(other)

IsShareText(x) == x \in ZeroShareTexts \/ IsHex128Text(x) \/ Hex16ToBigint(x).ok

\* C10: when one share is the zero value ("0x" and "" included) the recombined
\* key equals the other share, and no error is reported.
C10_ZeroShareYieldsOther ==
    xorOut.done =>
        /\ (sHex \in ZeroShareTexts /\ IsShareText(sPrimeHex)) =>
               DegenerateXorIs(sPrimeHex, xorOut.val)
        /\ (sPrimeHex \in ZeroShareTexts /\ IsShareText(sHex)) =>
               DegenerateXorIs(sHex, xorOut.val)

C10_Witness ==
    /\ xorOut.done
    /\ sHex = <<>>
    /\ sPrimeHex = S0x \o [i \in 1..32 |-> "f"]
    /\ xorOut.val = sPrimeHex

(***************************************************************************)
(* Properties of the key and hex conversions (SpecCodec).                  *)
(***************************************************************************)
\* C11: for a 16-byte key k, importing k and exporting the imported key succeeds
\* and returns the bytes of k, whichever revision of aesImportRaw16 made the key.
C11_ExportInvertsImport ==
    (codec.op = "importExport" /\ Len(codec.bytes) = 16) =>
        /\ codec.ok
        /\ codec.ok2
        /\ codec.outBytes = codec.bytes

\* C12: aesImportRaw16 throws its length error for every input that is not 16
\* bytes long, without calling crypto.subtle.importKey, and accepts every input of
\* 16 bytes.
C12_ImportChecksLength ==
    codec.op = "importExport" =>
        IF Len(codec.bytes) = 16
        THEN codec.ok /\ codec.platform = 1
        ELSE /\ ~codec.ok
             /\ codec.err \in {ErrKeyMust16, ErrAesKeyMust16}
             /\ codec.platform = 0

C12_Witness ==
    /\ codec.op = "importExport"
    /\ codec.rev = "current"
    /\ Len(codec.bytes) = 32
    /\ codec.err = ErrAesKeyMust16 /\ codec.got = 32

\* C13: bigintToKey16(key16ToBigint(k)) is k for a 16-byte key k, and the integer
\* is the big-endian reading of k: its hex digits are the bytes' digits, byte 0 first.
C13_KeyIntegerRoundTrip ==
    codec.op = "keyRoundTrip" =>
        /\ codec.outBytes = codec.bytes
        /\ PadTo(codec.outNum, 32) =
               [i \in 1..32 |-> IF i % 2 = 1 THEN codec.bytes[(i + 1) \div 2] \div 16
                                ELSE codec.bytes[i \div 2] % 16]

C13_Witness ==
    /\ codec.op = "keyRoundTrip"
    /\ codec.bytes[1] = 0 /\ codec.bytes[4] = 64
    /\ codec.outBytes = codec.bytes

\* a + b for digit sequences, from digit i down, with carry c
RECURSIVE BigAddDigits(_, _, _, _)
BigAddDigits(pa, pb, i, c) ==
    IF i = 0 THEN (IF c = 0 THEN <<>> ELSE <<c>>)
    ELSE Append(BigAddDigits(pa, pb, i - 1, (pa[i] + pb[i] + c) \div 16),
                (pa[i] + pb[i] + c) % 16)

BigAdd(a, b) ==
    LET n == IF Len(a) > Len(b) THEN Len(a) ELSE Len(b)
    IN  Canon(BigAddDigits(PadTo(a, n), PadTo(b, n), n, 0))

\* the low 32 hex digits of a digit sequence
Low32(d) == LET p == PadTo(d, 32) IN SubSeq(p, Len(p) - 31, Len(p))

\* r = x mod 2^128: r is below 2^128 and r - x is a multiple of 2^128
IsMod128(r, x) ==
    /\ Len(r) <= 32 /\ r = Canon(r)
    /\ IF x.neg THEN Low32(BigAdd(r, x.mag)) = [i \in 1..32 |-> 0]
       ELSE Low32(r) = Low32(x.mag)

\* C14: hex16ToBigint(bigintToHex16(x)) is x mod 2^128 for every integer x, those
\* of 2^128 and more and the negative ones included.
C14_ParseOfFormatIsMod ==
    codec.op = "hexRoundTrip" =>
        codec.ok /\ IsMod128(codec.outNum, codec.num)

C14_Witness ==
    /\ codec.op = "hexRoundTrip"
    /\ codec.num.neg /\ Len(codec.num.mag) > 32
    /\ codec.ok /\ codec.outNum # <<>>

\* 0x and exactly 32 lowercase hex digits
IsHex128(x) ==
    /\ Len(x) = 34 /\ x[1] = "0" /\ x[2] = "x"
    /\ \A i \in 3..34 : x[i] \in LowerHexSet

\* C15: bigintToHex16 returns 0x and exactly 32 lowercase hex digits, zeros on the
\* left, which encode the value masked to 128 bits.
C15_FormatIs32LowerHex ==
    codec.op = "hexRoundTrip" =>
        /\ IsHex128(codec.outText)
        /\ IsMod128(Canon([i \in 1..32 |-> HexValOf[codec.outText[i + 2]]]), codec.num)

C15_Witness ==
    /\ codec.op = "hexRoundTrip"
    /\ codec.num = SignedBig(FALSE, <<10, 11, 12>>)
    /\ codec.outText = S0x \o [i \in 1..29 |-> "0"] \o <<"a", "b", "c">>

\* the text without an optional 0x (or 0X) at its start
AfterPrefix(m) ==
    IF Len(m) >= 2 /\ m[1] = "0" /\ m[2] \in {"x", "X"} THEN SubSeq(m, 3, Len(m)) ELSE m

\* the text without the white space around it
Trimmed(text) ==
    LET ns == {i \in 1..Len(text) : text[i] # " "}
    IN  IF ns = {} THEN <<>>
        ELSE SubSeq(text, CHOOSE i \in ns : \A j \in ns : i <= j,
                          CHOOSE i \in ns : \A j \in ns : i >= j)

\* what hex16ToBigint has to do for a text whose digits are body
ParsesAs(body, out) ==
    IF \E i \in 1..Len(body) : ~IsHexCharAnyCase(body[i])
    THEN ~out.ok /\ out.err = ErrInvalidHex
    ELSE IF Len(body) > 32
    THEN ~out.ok /\ out.err = ErrTooManyDigits
    ELSE /\ out.ok
         /\ PadTo(out.outNum, 32) = PadTo([i \in 1..Len(body) |-> HexVal(body[i])], 32)

\* C16 as stated: every text that, after an optional 0x, contains a non-hex character
\* is rejected with "Invalid hex", every text of more than 32 hex digits with "Too
\* many hex digits", the empty string is zero and every other text is accepted.
C16_RejectsEveryNonHexText ==
    codec.op = "parseHex" => ParsesAs(AfterPrefix(codec.text), codec)

\* C16 as amended: the same, for the text without the white space around it.
C16_RejectsNonHexAfterTrim ==
    codec.op = "parseHex" => ParsesAs(AfterPrefix(Trimmed(codec.text)), codec)

C16_Witness ==
    /\ codec.op = "parseHex"
    /\ codec.text = <<" ", "f", "f">>
    /\ codec.ok /\ codec.outNum = <<15, 15>>

(***************************************************************************)
(* The layout of what encrypt returns (SpecCipher).                        *)
(***************************************************************************)
\* bytes of the UTF-8 form of a string: a lone surrogate counts as U+FFFD
Utf8Length(s) ==
    LET W(i) == IF s[i] < 128 THEN 1
                ELSE IF s[i] < 2048 THEN 2
                ELSE IF IsHighSurrogate(s[i]) /\ i < Len(s) /\ IsLowSurrogate(s[i + 1]) THEN 4
                ELSE IF IsLowSurrogate(s[i]) /\ i > 1 /\ IsHighSurrogate(s[i - 1]) THEN 0
                ELSE 3
        RECURSIVE Sum(_)
        Sum(i) == IF i = 0 THEN 0 ELSE W(i) + Sum(i - 1)
    IN  Sum(Len(s))

\* C17: what encrypt returned is 0x and lowercase hex, two digits per byte, of the
\* 12 bytes of the IV, the ciphertext and the 16 bytes of the tag: 12 + (bytes of
\* the plaintext) + 16 bytes, at least 28, for the empty plaintext too.
C17_PackedLayout ==
    (phase \in {"encrypted", "split", "recovered", "done"} /\ packed.damage = "none") =>
        LET t == packed.text
            n == 12 + Utf8Length(plain) + 16
        IN  /\ Len(t) = 2 + 2 * n /\ n >= 28
            /\ t[1] = "0" /\ t[2] = "x"
            /\ \A i \in 3..Len(t) : t[i] \in LowerHexSet
            /\ \E r \in sealed :
                  /\ Len(r.iv) = 12 /\ Len(r.ct) = Utf8Length(plain) + 16
                  /\ \A b \in 1..n :
                        16 * HexValOf[t[2 * b + 1]] + HexValOf[t[2 * b + 2]]
                            = (r.iv \o r.ct)[b]

C17_Witness ==
    /\ phase = "encrypted"
    /\ plain = <<>>
    /\ Len(packed.text) = 2 + 2 * 28

(***************************************************************************)
(* The WASM wrappers.                                                      *)
(***************************************************************************)
\* the absolute path the browser gives request r on the page at docPath
AbsolutePath(r, docPath) ==
    IF r.form = "relative" THEN DocumentDir(docPath) \o r.path ELSE r.path

\* r asks for a WASM resource
IsWasmRequest(r) == EndsWith(r.path, SDotWasm)

\* r is what the wrappers are for: a WASM resource outside base path basePath
NeedsBasePath(r, basePath, docPath) ==
    IsWasmRequest(r) /\ ~StartsWith(AbsolutePath(r, docPath), basePath)

\* the request a response with this url answers
RequestOfResponse(url) ==
    The({ Request("href", u.origin, u.pathname,
                  [search |-> u.search, hash |-> u.hash], "none")
          : u \in {NewURL(url, SOrigin)} })

\* C18: with a non-empty base path B installed, a fetch for a WASM resource
\* whose absolute path p does not start with B reaches the original fetch once,
\* with the target origin + B + p + query + fragment, in the form (string, URL
\* or Request with its options) and with the init it was called with.
C18_WasmFetchGetsBasePath ==
    (net.op = "fetch" /\ net.wraps > 0
       /\ NeedsBasePath(net.req, GetBasePath(pathname), pathname))
    => net.fetched =
         << [input |-> FetchInput(InputOf(net.req).kind,
                                  net.req.origin \o GetBasePath(pathname)
                                     \o AbsolutePath(net.req, pathname)
                                     \o net.req.search \o net.req.hash,
                                  net.req.opts),
             init |-> net.init] >>

\* a Request for /tfhe_bg.wasm?v=1#s with options, fetched with an init under
\* base path /farewell, has reached the original fetch as
\* /farewell/tfhe_bg.wasm?v=1#s
C18_Witness ==
    /\ net.op = "fetch" /\ net.wraps > 0
    /\ GetBasePath(pathname) = SFarewell
    /\ net.req.form = "Request" /\ net.req.opts = "post" /\ net.init = "init"
    /\ net.req.path = <<"/", "t", "f", "h", "e", "_", "b", "g", ".", "w", "a", "s", "m">>
    /\ net.req.search = <<"?", "v", "=", "1">>
    /\ Len(net.fetched) = 1
    /\ net.fetched[1].input.url =
          SOrigin \o SFarewell \o net.req.path \o net.req.search \o net.req.hash
    /\ net.fetched[1].input.opts = "post" /\ net.fetched[1].init = "init"

\* C19: every request that is not for a WASM resource outside the base path
\* goes through the fetch wrappers to the original fetch once with the
\* identical input and init, and every response that does not answer such a
\* request goes through the instantiateStreaming wrappers to the original
\* primitive as it is, with no fetch made.
C19_OtherTrafficUntouched ==
    /\ (net.op = "fetch" /\ net.wraps > 0
          /\ ~NeedsBasePath(net.req, GetBasePath(pathname), pathname))
       => net.fetched = << [input |-> InputOf(net.req), init |-> net.init] >>
    /\ (net.op = "instantiate" /\ net.wraps > 0
          /\ ~NeedsBasePath(RequestOfResponse(net.source.url),
                            GetBasePath(pathname), pathname))
       => (net.instantiated = <<net.source>> /\ net.fetched = <<>>)

\* C20: while the deployment base path is empty no load() has installed a
\* wrapper: window.fetch and WebAssembly.instantiateStreaming are the platform's.
C20_EmptyBasePathInstallsNothing ==
    GetBasePath(pathname) = <<>> => (fetchWraps = 0 /\ instWraps = 0)

\* every loader has run load() in a browser at the root deployment, and no
\* wrapper is installed
C20_Witness ==
    /\ GetBasePath(pathname) = <<>>
    /\ hasWindow
    /\ \A l \in Loaders : wasmPatchApplied[l]
    /\ fetchWraps = 0 /\ instWraps = 0

(***************************************************************************)
(* The loader: patching, environment, settlement, validation.              *)
(***************************************************************************)
\* C21: after any sequence of load() calls in one page, on any of its loader
\* objects, window.fetch and WebAssembly.instantiateStreaming are each wrapped
\* at most once.
C21_PatchAppliedOnce == fetchWraps <= 1 /\ instWraps <= 1

\* C22: without a global window every isLoaded() has thrown and every load()
\* has returned an already rejected promise, both with the not-in-a-browser
\* error, and no load() has set the patch flag, wrapped a primitive, looked
\* for a script or injected one.
C22_NoWindowFailsAtOnce ==
    ~hasWindow =>
        /\ \A i \in 1..Len(calls) :
              /\ calls[i].branch = "noWindow"
              /\ calls[i].err = ErrNotBrowser
              /\ calls[i].op = "isLoaded" => calls[i].outcome = "thrown"
              /\ calls[i].op = "load" => calls[i].outcome = "rejected"
        /\ \A l \in Loaders : ~wasmPatchApplied[l]
        /\ fetchWraps = 0 /\ instWraps = 0
        /\ scripts = <<>>

\* without window, under /farewell, a load() and an isLoaded() have been made
C22_Witness ==
    /\ ~hasWindow
    /\ GetBasePath(pathname) = SFarewell
    /\ \E i \in 1..Len(calls) : calls[i].op = "load" /\ calls[i].outcome = "rejected"
    /\ \E i \in 1..Len(calls) : calls[i].op = "isLoaded" /\ calls[i].outcome = "thrown"
    /\ scripts = <<>> /\ fetchWraps = 0

\* the promise of the load() that injected script i is settled as the event
\* of the script says
SettledAsEvent(i) ==
    LET c == calls[scripts[i].owner]
    IN  /\ c.op = "load" /\ c.branch = "inject"
        /\ scripts[i].src = GetSDKCDNUrl(pathname)
        /\ scripts[i].state = "pending" => c.outcome = "pending"
        /\ scripts[i].state = "loaded" =>
              IF IsFhevmWindowType(relayerSDK)
              THEN c.outcome = "resolved"
              ELSE /\ c.outcome = "rejected"
                   /\ c.err = ErrInvalidAfterLoad
                   /\ c.url = scripts[i].src
        /\ scripts[i].state = "errored" =>
              /\ c.outcome = "rejected"
              /\ c.err = ErrScriptLoadFailed
              /\ c.url = scripts[i].src

\* a settled promise keeps its outcome
SettledStays ==
    \A i \in 1..Len(calls) :
        calls[i].outcome # "pending" => (Len(calls') >= i /\ calls'[i] = calls[i])

\* C23: the promise of a load() that injected a script is pending until the
\* script's event, then resolved (load event, valid global handle), rejected
\* with the invalid-handle error (load event, invalid handle) or rejected with
\* the script-failure error naming the attempted URL (error event), and once
\* settled it never changes.
C23_InjectedLoadSettlesOnEvent ==
    /\ [](/\ \A i \in 1..Len(scripts) : SettledAsEvent(i)
          /\ \A j \in 1..Len(calls) :
                calls[j].branch = "inject" => \E i \in 1..Len(scripts) : scripts[i].owner = j)
    /\ [][SettledStays]_vars

\* under /farewell a script failed to load, its load() is rejected with the
\* attempted URL, and a later call has been made
C23_Witness ==
    /\ \E i \in 1..Len(scripts) :
          /\ scripts[i].state = "errored"
          /\ calls[scripts[i].owner].outcome = "rejected"
          /\ calls[scripts[i].owner].err = ErrScriptLoadFailed
          /\ calls[scripts[i].owner].url = SFarewell \o SSdkPath
          /\ Len(calls) > scripts[i].owner

\* C26: the document never holds more than one script element whose src is the
\* SDK URL, whatever load() calls were made, in flight or after a failure.
C26_OneSdkScript ==
    Cardinality({i \in 1..Len(scripts) : scripts[i].src = GetSDKCDNUrl(pathname)}) <= 1

\* a load() made while the script was in flight and one made after it failed
\* have left the single script element in the document
C26_Witness ==
    /\ Len(scripts) = 1 /\ scripts[1].state = "errored"
    /\ \E i, j \in 1..Len(calls) :
          /\ calls[i].op = "load" /\ calls[i].at = "Loading"
          /\ calls[j].op = "load" /\ calls[j].at = "Failed"

\* a non-null object with initSDK and createInstance of type function,
\* SepoliaConfig of type object, and __initialized__ missing or a boolean
StructurallyValid(o) ==
    /\ o.kind = "object"
    /\ o.initSDK = "function"
    /\ o.createInstance = "function"
    /\ o.SepoliaConfig = "object"
    /\ o.initialized \in {"missing", "true", "false"}

\* C24: the structural validation accepts exactly the non-null objects with
\* initSDK and createInstance functions, a SepoliaConfig object and, if
\* present, a boolean __initialized__; isLoaded() in a browser returns that
\* verdict for window.relayerSDK, false when window has no such property.
C24_ValidationIsStructural ==
    /\ IsFhevmRelayerSDKType(relayerSDK) <=> StructurallyValid(relayerSDK)
    /\ \A i \in 1..Len(calls) :
          (calls[i].op = "isLoaded" /\ calls[i].branch = "window") =>
              calls[i].outcome = IF InWindow(relayerSDK) /\ StructurallyValid(relayerSDK)
                                 THEN "true" ELSE "false"

\* isLoaded() has returned false for an object that has the three members but
\* an __initialized__ that is not a boolean
C24_Witness ==
    /\ relayerSDK = SdkValue("object", "function", "function", "object", "string")
    /\ \E i \in 1..Len(calls) :
          calls[i].op = "isLoaded" /\ calls[i].branch = "window"
          /\ calls[i].outcome = "false"

\* C25: with a non-empty base path B installed, instantiateStreaming of a
\* response for a WASM resource whose URL does not contain B makes one fetch,
\* of B + the path (with query and fragment) of that URL, and hands the
\* response of that fetch, once, to the original primitive.
C25_InstantiateRefetchesUnderBasePath ==
    (net.op = "instantiate" /\ net.wraps > 0
       /\ Includes(net.source.url, SDotWasm)
       /\ ~Includes(net.source.url, GetBasePath(pathname)))
    => \E u \in {NewURL(net.source.url, SOrigin)} :
          \E target \in {SOrigin \o GetBasePath(pathname) \o u.pathname
                            \o u.search \o u.hash} :
             /\ Len(net.fetched) = 1
             /\ ResponseUrl(net.fetched[1].input.url, pathname) = target
             /\ net.instantiated = <<ResponseOf(target, FALSE)>>

(***************************************************************************)
(* The share fields.                                                       *)
(***************************************************************************)
\* 0x followed by at most 32 lowercase hex digits
IsShareForm(t) ==
    /\ StartsWith(t, S0x)
    /\ Len(t) <= 2 + 32
    /\ \A i \in 3..Len(t) : IsHexChar(t[i])

\* the field the last edit wrote
EditedField ==
    IF codec.op \in {"handleSChange", "pasteS"} THEN sHex ELSE sPrimeHex

\* C27: whatever text is typed or pasted into a share field, the stored value
\* is 0x followed by at most 32 lowercase hex digits, hex16ToBigint accepts
\* it, and a text already in that form is stored as it is.
C27_StoredShareIsHex128 ==
    codec.op \in {"handleSChange", "handleSPrimeChange", "pasteS", "pasteSPrime"}
    => /\ IsShareForm(EditedField)
       /\ Hex16ToBigint(EditedField).ok
       /\ IsShareForm(codec.text) => EditedField = codec.text

====
